---- MODULE Spec2Model ----
(***************************************************************************)
(* carddown: the card store (db.rs), the revise session (view/revise.rs,   *)
(* main.rs) and the instance lock (main.rs) as state machines.             *)
(*                                                                         *)
(* Numbers: ease factors are kept in hundredths (2.5 is 250), the mean     *)
(* quality in sixtieths, optimal factors in ten-thousandths.  Time is in   *)
(* seconds.                                                                *)
(***************************************************************************)
EXTENDS Integers, Sequences, FiniteSets, TLC

VARIABLES
    dbFile,        \* content of the store file: id -> CardEntry (db.rs CardDb)
    stateFile,     \* content of the global-state file (db.rs GlobalState)
    now,           \* wall clock, seconds
    pc,            \* "idle" | "session" | "returned": position of the running process
    app,           \* view::revise::App of the running revise process
    cram,          \* the cram flag captured by main's completion callback
    result,        \* what main returned: "none" | "ok" | "err"
    lastFull,      \* history: ids of the found list of the most recent full update_db
    sess,          \* history of the running revise process
    marker,        \* the lock file exists
    proc,          \* lock model: per process, its position and flags
    forced,        \* lock model: some process was started with --force
    fs,            \* save model: path -> content of the file, or Absent
    aw,            \* save model: the running atomic_write, its position and arguments
    rev,           \* review model: a card state under a sequence of reviews
    tree,          \* scan model: file -> modification time, None when there is no such file
    indexFile,     \* scan model: content of the scan index file: file -> recorded time
    scan,          \* scan model: history of the latest directory scan
    disk,          \* threads model: path -> inode, inode -> bytes
    thr,           \* threads model: per thread, its position, its handle and its results
    aud            \* audit view: the fields of the App and the history of its keys and calls

storeVars == <<dbFile, stateFile, now, pc, app, cram, result, lastFull, sess>>
lockVars == <<marker, proc, forced>>
writeVars == <<fs, aw>>
algoVars == <<rev>>
scanVars == <<tree, indexFile, scan>>
concVars == <<disk, thr>>
auditVars == <<aud>>
vars == <<dbFile, stateFile, now, pc, app, cram, result, lastFull, sess,
          marker, proc, forced, fs, aw, rev, tree, indexFile, scan, disk, thr, aud>>

----------------------------------------------------------------------------
(* Bounds *)

NumIds == 2
NumVersions == 2
MaxFound == 2
MaxCards == 1
MaxTotal == 2
MaxThreshold == 2
MaxDuration == 1
MaxElapsed == 1
NumProcs == 2
MaxLen == 2
MaxReviews == 3
MaxMtime == 1
NumFiles == 2
MaxFails == 16
NumThreads == 3
MaxCalls == 2
IntervalBits == 10

Ids == 1..NumIds
Versions == 1..NumVersions
None == 0 - 1

Max(a, b) == IF a >= b THEN a ELSE b
Min(a, b) == IF a <= b THEN a ELSE b

----------------------------------------------------------------------------
(* card.rs, algorithm/mod.rs, db.rs: the data *)

\* A card: its id (the content hash) and the rest of its content (file, line,
\* tags), which may change while the id stays.
Card == [id : Ids, ver : Versions]

\* The tags of a card are part of its content.
tags_of(card) == IF card.ver = 1 THEN {"t"} ELSE {}

CardState_default ==
    [ease_factor |-> 250, interval |-> 0, repetitions |-> 0, failed_count |-> 0]

CardEntry_new(card, t) ==
    [added |-> t, card |-> card, last_revised |-> None, leech |-> FALSE,
     orphan |-> FALSE, revise_count |-> 0, state |-> CardState_default]

EmptyFn == [x \in {} |-> 0]

GlobalState_default ==
    [optimal_factor_matrix |-> EmptyFn, last_revise_session |-> None,
     mean_q |-> None, total_cards_revised |-> 0]

----------------------------------------------------------------------------
(* db.rs: the store *)

\* atomic_write: the file holds the new content on success, the old on failure
atomic_write(old, new, ok) == IF ok THEN new ELSE old

write_db(old, card_db, ok) == atomic_write(old, card_db, ok)

write_global_state(old, state, ok) == atomic_write(old, state, ok)

get_db(file) == file

get_global_state(file) == file

\* delete_card: the store after the call
delete_card(file, id, ok) ==
    LET card_db == get_db(file)
    IN  IF id \notin DOMAIN card_db
        THEN file
        ELSE write_db(file, [i \in DOMAIN card_db \ {id} |-> card_db[i]], ok)

\* a delete_card that reports success whenever the write succeeds
delete_card_result_lenient(file, id, ok) == IF ok THEN "ok" ELSE "err"

\* delete_card: what the call returns
delete_card_result(file, id, ok) ==
    IF id \notin DOMAIN get_db(file) THEN "err" ELSE IF ok THEN "ok" ELSE "err"

\* an update_cards whose loop runs from the end of the list to its start
RECURSIVE insert_all_backwards(_, _)
insert_all_backwards(card_db, cards) ==
    IF cards = <<>> THEN card_db
    ELSE LET c == cards[Len(cards)]
         IN  insert_all_backwards([i \in DOMAIN card_db \cup {c.card.id} |->
                                       IF i = c.card.id THEN c ELSE card_db[i]],
                                  SubSeq(cards, 1, Len(cards) - 1))

\* update_cards, lines 157-159: the loop of inserts, in list order
RECURSIVE insert_all(_, _)
insert_all(card_db, cards) ==
    IF cards = <<>> THEN card_db
    ELSE LET c == Head(cards)
         IN  insert_all([i \in DOMAIN card_db \cup {c.card.id} |->
                             IF i = c.card.id THEN c ELSE card_db[i]],
                        Tail(cards))

\* update_cards: the store after the call
update_cards(file, cards, ok) ==
    write_db(file, insert_all(get_db(file), cards), ok)

\* update_db, lines 177-180: collecting into a map keeps the last card of an id
found_card_db(found_cards, t) ==
    [id \in {found_cards[i].id : i \in DOMAIN found_cards} |->
        LET last == CHOOSE i \in DOMAIN found_cards :
                        /\ found_cards[i].id = id
                        /\ \A j \in DOMAIN found_cards :
                               found_cards[j].id = id => j <= i
        IN  CardEntry_new(found_cards[last], t)]

\* an update_db that rebuilds an existing entry around its statistics and so
\* stamps it with the time of the call
update_db_merge_stamp(card_db, found_cards, full, t) ==
    LET found == found_card_db(found_cards, t)
        found_ids == DOMAIN found
        existing == DOMAIN card_db
        updated == [id \in existing |->
                       IF id \in found_ids
                       THEN [card_db[id] EXCEPT !.card = found[id].card,
                                                !.added = found[id].added,
                                                !.orphan = FALSE]
                       ELSE card_db[id]]
        inserted == [id \in existing \cup found_ids |->
                        IF id \in existing THEN updated[id] ELSE found[id]]
    IN  [id \in DOMAIN inserted |->
            IF full /\ id \notin found_ids
            THEN [inserted[id] EXCEPT !.orphan = TRUE]
            ELSE inserted[id]]

\* an update_db that takes the whole found entry when the content of a card
\* has changed
update_db_merge_reset(card_db, found_cards, full, t) ==
    LET found == found_card_db(found_cards, t)
        found_ids == DOMAIN found
        existing == DOMAIN card_db
        updated == [id \in existing |->
                       IF id \in found_ids
                       THEN IF card_db[id].card # found[id].card
                            THEN found[id]
                            ELSE [card_db[id] EXCEPT !.orphan = FALSE]
                       ELSE card_db[id]]
        inserted == [id \in existing \cup found_ids |->
                        IF id \in existing THEN updated[id] ELSE found[id]]
    IN  [id \in DOMAIN inserted |->
            IF full /\ id \notin found_ids
            THEN [inserted[id] EXCEPT !.orphan = TRUE]
            ELSE inserted[id]]

\* an update_db whose orphan pass does not look at full
update_db_merge_orphan_always(card_db, found_cards, full, t) ==
    LET found == found_card_db(found_cards, t)
        found_ids == DOMAIN found
        existing == DOMAIN card_db
        updated == [id \in existing |->
                       IF id \in found_ids
                       THEN [card_db[id] EXCEPT !.card = found[id].card,
                                                !.orphan = FALSE]
                       ELSE card_db[id]]
        inserted == [id \in existing \cup found_ids |->
                        IF id \in existing THEN updated[id] ELSE found[id]]
    IN  [id \in DOMAIN inserted |->
            IF id \notin found_ids
            THEN [inserted[id] EXCEPT !.orphan = TRUE]
            ELSE inserted[id]]

\* update_db, lines 188-217: the three passes over the map
update_db_merge(card_db, found_cards, full, t) ==
    LET found == found_card_db(found_cards, t)
        found_ids == DOMAIN found
        existing == DOMAIN card_db
        \* update existing cards
        updated == [id \in existing |->
                       IF id \in found_ids
                       THEN [card_db[id] EXCEPT !.card = found[id].card,
                                                !.orphan = FALSE]
                       ELSE card_db[id]]
        \* new cards
        inserted == [id \in existing \cup found_ids |->
                        IF id \in existing THEN updated[id] ELSE found[id]]
    IN  \* orphaned cards
        [id \in DOMAIN inserted |->
            IF full /\ id \notin found_ids
            THEN [inserted[id] EXCEPT !.orphan = TRUE]
            ELSE inserted[id]]

\* update_db: the store after the call
update_db(file, found_cards, full, t, ok) ==
    IF found_cards = <<>>
    THEN file
    ELSE write_db(file, update_db_merge(get_db(file), found_cards, full, t), ok)

----------------------------------------------------------------------------
(* algorithm/mod.rs, sm2.rs, sm5.rs, simple8.rs *)

Qualities == 0..5

failed(quality) == quality \in {0, 1, 2}

\* n / d rounded to the nearest integer
RoundDiv(n, d) == (2 * n + d) \div (2 * d)

\* f64 to u64: negative values give 0, the fraction is dropped
safe_f64_to_u64(x) == IF x < 0 THEN 0 ELSE x

\* an ease factor that is not held at 1.3
new_ease_factor_unclamped(quality, ease_factor) ==
    ease_factor + 10 - (5 - quality) * (8 + (5 - quality) * 2)

\* ease factors in hundredths
new_ease_factor(quality, ease_factor) ==
    LET q == quality
        new_ef == ease_factor + 10 - (5 - q) * (8 + (5 - q) * 2)
    IN  Max(new_ef, 130)

\* an update_meanq that weighs the old mean with the count after the increment
update_meanq_late_count(global, quality) ==
    LET q == quality * 60
        total == global.total_cards_revised + 1
    IN  [global EXCEPT
            !.total_cards_revised = total,
            !.mean_q = IF global.mean_q # None
                       THEN RoundDiv(total * global.mean_q + q, total + 1)
                       ELSE q]

\* mean_q in sixtieths
update_meanq(global, quality) ==
    LET q == quality * 60
        total == global.total_cards_revised
    IN  [global EXCEPT
            !.total_cards_revised = total + 1,
            !.mean_q = IF global.mean_q # None
                       THEN RoundDiv(total * global.mean_q + q, total + 1)
                       ELSE q]

\* an ease factor in hundredths is its own rounding to two decimals
round_float_2(ease_factor) == ease_factor

\* an SM2 that multiplies the interval by the updated ease factor
Sm2_update_state_new_ease(quality, state, global) ==
    IF failed(quality)
    THEN [state |-> [state EXCEPT !.repetitions = 0, !.interval = 0,
                                  !.failed_count = state.failed_count + 1],
          global |-> global]
    ELSE LET new_ef == new_ease_factor(quality, state.ease_factor)
             interval ==
                 CASE state.repetitions = 0 -> 1
                   [] state.repetitions = 1 -> 6
                   [] OTHER -> safe_f64_to_u64(RoundDiv(state.interval * new_ef, 100))
         IN  [state |-> [state EXCEPT
                            !.interval = interval,
                            !.repetitions = state.repetitions + 1,
                            !.ease_factor = new_ef],
              global |-> global]

Sm2_update_state(quality, state, global) ==
    IF failed(quality)
    THEN [state |-> [state EXCEPT !.repetitions = 0, !.interval = 0,
                                  !.failed_count = state.failed_count + 1],
          global |-> global]
    ELSE LET interval ==
                 CASE state.repetitions = 0 -> 1
                   [] state.repetitions = 1 -> 6
                   [] OTHER -> safe_f64_to_u64(
                                   RoundDiv(state.interval * state.ease_factor, 100))
         IN  [state |-> [state EXCEPT
                            !.interval = interval,
                            !.repetitions = state.repetitions + 1,
                            !.ease_factor = new_ease_factor(quality, state.ease_factor)],
              global |-> global]

\* optimal factors in ten-thousandths; the matrix maps <<repetitions, ease>> to a factor
get_optimal_factor(repetitions, ease_factor, of_matrix) ==
    LET key == <<repetitions, round_float_2(ease_factor)>>
    IN  IF key \in DOMAIN of_matrix
        THEN of_matrix[key]
        ELSE IF repetitions = 0 THEN 40000 ELSE ease_factor * 100

\* (1 - 0.5) * of + 0.5 * of * (0.72 + 0.07 q)  =  of * (172 + 7 q) / 200
new_optimal_factor(optimal_factor, quality) ==
    RoundDiv(optimal_factor * (172 + 7 * quality), 200)

\* an update that starts the row of the repetition count afresh
update_optimal_factor_matrix_fresh_row(repetitions, ease_factor, optimal_factor, of_matrix) ==
    LET key == <<repetitions, round_float_2(ease_factor)>>
        others == {k \in DOMAIN of_matrix : k[1] # repetitions}
    IN  [k \in others \cup {key} |->
            IF k = key THEN optimal_factor ELSE of_matrix[k]]

\* lines 63-65: the row of the repetition count is taken out, extended by the
\* entry of the rounded ease factor and put back
update_optimal_factor_matrix(repetitions, ease_factor, optimal_factor, of_matrix) ==
    LET key == <<repetitions, round_float_2(ease_factor)>>
    IN  [k \in DOMAIN of_matrix \cup {key} |->
            IF k = key THEN optimal_factor ELSE of_matrix[k]]

repetition_interval(last_interval, repetitions, ease_factor, of_matrix) ==
    LET optimal_factor == get_optimal_factor(repetitions, ease_factor, of_matrix)
        res == IF repetitions = 0 THEN optimal_factor
               ELSE last_interval * optimal_factor
    IN  RoundDiv(res, 10000)

\* an SM5 that assigns the new ease factor on a failed review too
Sm5_update_state_ease_always(quality, state, global) ==
    LET new_ef == new_ease_factor(quality, state.ease_factor)
        of == get_optimal_factor(state.repetitions, state.ease_factor,
                                 global.optimal_factor_matrix)
        new_of == new_optimal_factor(of, quality)
        matrix == update_optimal_factor_matrix(state.repetitions, new_ef, new_of,
                                               global.optimal_factor_matrix)
        g == [global EXCEPT !.optimal_factor_matrix = matrix]
    IN  IF failed(quality)
        THEN [state |-> [state EXCEPT !.repetitions = 0, !.interval = 0,
                                      !.ease_factor = new_ef],
              global |-> g]
        ELSE [state |-> [state EXCEPT
                            !.interval = repetition_interval(state.interval,
                                             state.repetitions, new_ef, matrix),
                            !.repetitions = state.repetitions + 1,
                            !.ease_factor = new_ef],
              global |-> g]

Sm5_update_state(quality, state, global) ==
    LET new_ef == new_ease_factor(quality, state.ease_factor)
        of == get_optimal_factor(state.repetitions, state.ease_factor,
                                 global.optimal_factor_matrix)
        new_of == new_optimal_factor(of, quality)
        matrix == update_optimal_factor_matrix(state.repetitions, new_ef, new_of,
                                               global.optimal_factor_matrix)
        g == [global EXCEPT !.optimal_factor_matrix = matrix]
    IN  IF failed(quality)
        THEN [state |-> [state EXCEPT !.repetitions = 0, !.interval = 0],
              global |-> g]
        ELSE [state |-> [state EXCEPT
                            !.interval = repetition_interval(state.interval,
                                             state.repetitions, new_ef, matrix),
                            !.repetitions = state.repetitions + 1,
                            !.ease_factor = new_ef],
              global |-> g]

\* 2.4849 * e^(-0.057 f) in ten-thousandths, f = 0, 1, ...: the value is 2 or more
\* up to f = 3, 1 or more up to f = 15 and below 1 from f = 16 on
first_interval_table ==
    <<24849, 23472, 22172, 20943, 19783, 18687, 17651, 16673,
       15750, 14877, 14053, 13274, 12539, 11844, 11188, 10568,
       9982, 9429, 8907, 8413, 7947, 7507, 7091, 6698,
       6327, 5976, 5645, 5332, 5037, 4758, 4494, 4245,
       4010, 3788, 3578, 3380, 3193, 3016, 2849, 2691,
       2542>>

first_interval(total_failures) ==
    IF total_failures < Len(first_interval_table)
    THEN first_interval_table[total_failures + 1]
    ELSE Max(1, first_interval_table[Len(first_interval_table)]
                    - (total_failures + 1 - Len(first_interval_table)))

\* 0.0542 q^4 - 0.4848 q^3 + 1.4916 q^2 - 1.2403 q + 1.4515, q in sixtieths,
\* the result in ten-thousandths
quality_to_ease(q) ==
    LET h1 == RoundDiv(542 * q, 60) - 4848
        h2 == RoundDiv(h1 * q, 60) + 14916
        h3 == RoundDiv(h2 * q, 60) - 12403
    IN  RoundDiv(h3 * q, 60) + 14515

\* 1.2 + (ease - 1.2) * 0.5^log2(r): 0.5^log2(r) is 1/r, and 1 when r = 0
interval_factor(ease, repetitions) ==
    IF repetitions > 0
    THEN 12000 + RoundDiv(ease - 12000, repetitions)
    ELSE ease

Simple8_update_state(quality, state, global) ==
    IF failed(quality)
    THEN [state |-> [state EXCEPT !.repetitions = 0, !.interval = 0,
                                  !.failed_count = state.failed_count + 1],
          global |-> global]
    ELSE IF state.repetitions = 0 \/ state.interval = 0
    THEN [state |-> [state EXCEPT
                        !.interval = safe_f64_to_u64(
                                         first_interval(state.failed_count) \div 10000),
                        !.repetitions = state.repetitions + 1],
          global |-> global]
    ELSE LET q == IF global.mean_q # None THEN global.mean_q ELSE quality * 60
             factor == interval_factor(quality_to_ease(q), state.repetitions)
         IN  [state |-> [state EXCEPT
                            !.interval = safe_f64_to_u64(
                                             RoundDiv(state.interval * factor, 10000)),
                            !.repetitions = state.repetitions + 1],
              global |-> global]

Algos == {"SM2", "SM5", "Simple8"}

\* Algorithm::update_state, dispatched on the algorithm chosen by new_algorithm
algorithm_update_state(algo, quality, state, global) ==
    CASE algo = "SM2" -> Sm2_update_state(quality, state, global)
      [] algo = "SM5" -> Sm5_update_state(quality, state, global)
      [] OTHER -> Simple8_update_state(quality, state, global)

----------------------------------------------------------------------------
(* db.rs refresh_global_state, main.rs filter_cards *)

WeekSecs == 604800
DaySecs == 86400
HourSecs == 3600

\* a refresh whose weekly reset returns to the default state
refresh_global_state_reset_all(state, t) ==
    LET reset == /\ state.last_revise_session # None
                 /\ t - state.last_revise_session > WeekSecs
        s1 == IF reset THEN GlobalState_default ELSE state
    IN  [s1 EXCEPT !.last_revise_session = t]

\* a refresh that resets from exactly one week on
refresh_global_state_inclusive(state, t) ==
    LET reset == /\ state.last_revise_session # None
                 /\ t - state.last_revise_session >= WeekSecs
        s1 == IF reset
              THEN [state EXCEPT !.total_cards_revised = 0, !.mean_q = None]
              ELSE state
    IN  [s1 EXCEPT !.last_revise_session = t]

\* db.rs refresh_global_state at clock reading t
refresh_global_state(state, t) ==
    LET reset == /\ state.last_revise_session # None
                 /\ t - state.last_revise_session > WeekSecs
        s1 == IF reset
              THEN [state EXCEPT !.total_cards_revised = 0, !.mean_q = None]
              ELSE state
    IN  [s1 EXCEPT !.last_revise_session = t]

LeechMethods == {"Skip", "Warn"}

\* the interval field is an unsigned integer of 64 bits; the model keeps
\* IntervalBits of them
IntervalMax == 2^IntervalBits - 1

\* line 245, `c.state.interval as i64`: the cast to the signed integer of the
\* same width turns the upper half of the unsigned range negative
as_i64(x) == IF x < 2^(IntervalBits - 1) THEN x ELSE x - 2^IntervalBits

\* chrono::Duration::days panics beyond the days that a Duration holds, which
\* are fewer than the signed integer holds (here: half of its range)
Duration_days_in_range(days) ==
    -(2^(IntervalBits - 2)) <= days /\ days <= 2^(IntervalBits - 2)

\* DateTime + Duration panics beyond the dates that a DateTime holds, which are
\* fewer still (here: a quarter of the range, on either side)
DateTime_add_in_range(days) ==
    -(2^(IntervalBits - 3)) <= days /\ days <= 2^(IntervalBits - 3)

\* line 245: last_revised + chrono::Duration::days(c.state.interval as i64)
next_date(c) == c.last_revised + as_i64(c.state.interval) * DaySecs

\* the due filter panics: the process ends without a batch
due_filter_panics(c, cram_mode) ==
    /\ c.last_revised # None
    /\ ~cram_mode
    /\ \/ ~Duration_days_in_range(as_i64(c.state.interval))
       \/ ~DateTime_add_in_range(as_i64(c.state.interval))

\* a due filter whose two boundaries are exclusive
is_due_exclusive(c, cram_mode, cram_hours, today) ==
    IF c.last_revised # None
    THEN IF cram_mode
         THEN today - c.last_revised > cram_hours * HourSecs
         ELSE today > next_date(c)
    ELSE TRUE

\* the due filter of filter_cards, where it does not panic
is_due(c, cram_mode, cram_hours, today) ==
    IF c.last_revised # None
    THEN IF cram_mode
         THEN today - c.last_revised >= cram_hours * HourSecs
         ELSE today >= next_date(c)
    ELSE TRUE

\* filter_cards: the ids of the entries that pass the four filters
filter_cards(db, tags, include_orphans, leech_method, cram_mode, cram_hours, today) ==
    {id \in DOMAIN db :
        /\ is_due(db[id], cram_mode, cram_hours, today)
        /\ (tags = {} \/ tags_of(db[id].card) \cap tags # {})
        /\ (include_orphans \/ ~db[id].orphan)
        /\ ~(leech_method = "Skip" /\ db[id].leech)}

\* a selection that may take an entry more than once
Batches_with_repeats(db, ids, maximum) ==
    LET n == Min(maximum, Cardinality(ids))
    IN  {[i \in 1..n |-> db[f[i]]] : f \in [1..n -> ids]}

\* shuffle, then take(maximum_cards_per_session): every order of every selection
Batches(db, ids, maximum) ==
    LET n == Min(maximum, Cardinality(ids))
    IN  {[i \in 1..n |-> db[f[i]]] :
            f \in {g \in [1..n -> ids] : \A i, j \in 1..n : g[i] = g[j] => i = j}}

----------------------------------------------------------------------------
(* view/revise.rs: the session; main.rs: the completion callback *)

\* elapsed stands for started.elapsed().as_secs(), the monotonic clock of the
\* session
NoApp ==
    [algorithm |-> "none", cards |-> <<>>, global_state |-> GlobalState_default,
     leech_threshold |-> 0, max_duration |-> 0, current_card |-> 0,
     exit |-> FALSE, help |-> FALSE, revealed |-> FALSE, elapsed |-> 0]

App_new(algorithm, cards, global_state, leech_threshold, max_duration) ==
    [algorithm |-> algorithm, cards |-> cards, global_state |-> global_state,
     leech_threshold |-> leech_threshold, max_duration |-> max_duration,
     current_card |-> 0, exit |-> FALSE, help |-> FALSE, revealed |-> FALSE,
     elapsed |-> 0]

NoSess ==
    [ran |-> FALSE, update_calls |-> 0, reviewed |-> EmptyFn,
     db_write_failed |-> FALSE, state_write_failed |-> FALSE,
     db0 |-> EmptyFn, st0 |-> GlobalState_default]

\* a closure that does not look at the cram flag
update_fn_always(in_cram, db, st, cards, global_state, okDb, okSt) ==
    [db |-> update_cards(db, cards, okDb),
     st |-> write_global_state(st, global_state, okSt),
     res |-> IF okSt THEN "ok" ELSE "err"]

\* main.rs, the closure handed to App::new: what it leaves in the two files and
\* what it returns
update_fn(in_cram, db, st, cards, global_state, okDb, okSt) ==
    IF ~in_cram
    THEN [db |-> update_cards(db, cards, okDb),
          st |-> write_global_state(st, global_state, okSt),
          res |-> IF okSt THEN "ok" ELSE "err"]
    ELSE [db |-> db, st |-> st, res |-> "ok"]

\* A world is what a handler of the session works on: the App, the cram flag
\* its callback captured, the two files and the history of the session.
MkWorld(a, in_cram, db, st, h) ==
    [app |-> a, cram |-> in_cram, db |-> db, st |-> st, sess |-> h]

World == MkWorld(app, cram, dbFile, stateFile, sess)

\* App::exit
exit(w, okDb, okSt) ==
    LET r == update_fn(w.cram, w.db, w.st, w.app.cards, w.app.global_state,
                       okDb, okSt)
    IN  [w EXCEPT
            !.app.cards = <<>>,
            !.app.exit = TRUE,
            !.db = r.db,
            !.st = r.st,
            !.sess.update_calls = @ + 1,
            !.sess.db_write_failed = @ \/ (~w.cram /\ ~okDb),
            !.sess.state_write_failed = @ \/ (~w.cram /\ ~okSt)]

\* a review that recomputes the leech flag from the threshold of the session
review_card_recompute(a, card, quality, t) ==
    LET r == algorithm_update_state(a.algorithm, quality, card.state, a.global_state)
        c1 == [card EXCEPT !.last_revised = t,
                           !.revise_count = card.revise_count + 1,
                           !.state = r.state]
    IN  [card |-> [c1 EXCEPT !.leech = (c1.state.failed_count >= a.leech_threshold)],
         global |-> r.global]

\* a review that flags a card only when its failures exceed the threshold
review_card_exceeds(a, card, quality, t) ==
    LET r == algorithm_update_state(a.algorithm, quality, card.state, a.global_state)
        c1 == [card EXCEPT !.last_revised = t,
                           !.revise_count = card.revise_count + 1,
                           !.state = r.state]
    IN  [card |-> IF c1.state.failed_count > a.leech_threshold
                  THEN [c1 EXCEPT !.leech = TRUE]
                  ELSE c1,
         global |-> r.global]

\* a review that applies the algorithm twice
review_card_twice(a, card, quality, t) ==
    LET r1 == algorithm_update_state(a.algorithm, quality, card.state, a.global_state)
        r == algorithm_update_state(a.algorithm, quality, r1.state, r1.global)
        c1 == [card EXCEPT !.last_revised = t,
                           !.revise_count = card.revise_count + 1,
                           !.state = r.state]
    IN  [card |-> IF c1.state.failed_count >= a.leech_threshold
                  THEN [c1 EXCEPT !.leech = TRUE]
                  ELSE c1,
         global |-> r.global]

\* App::update_state, lines 138-146: the review of the card at index current_card
review_card(a, card, quality, t) ==
    LET r == algorithm_update_state(a.algorithm, quality, card.state, a.global_state)
        c1 == [card EXCEPT !.last_revised = t,
                           !.revise_count = card.revise_count + 1,
                           !.state = r.state]
    IN  [card |-> IF c1.state.failed_count >= a.leech_threshold
                  THEN [c1 EXCEPT !.leech = TRUE]
                  ELSE c1,
         global |-> r.global]

\* App::update_state
App_update_state(w, quality, t, okDb, okSt) ==
    LET w1 == [w EXCEPT !.app.revealed = FALSE]
        current_card == w.app.current_card
    IN  IF w1.app.cards = <<>>
        THEN w1
        ELSE LET w2 == IF w1.app.current_card >= Len(w1.app.cards)
                       THEN exit(w1, okDb, okSt)
                       ELSE [w1 EXCEPT !.app.current_card = @ + 1]
                 w3 == [w2 EXCEPT !.app.global_state = update_meanq(@, quality)]
             IN  IF current_card < Len(w3.app.cards)
                 THEN LET r == review_card(w3.app, w3.app.cards[current_card + 1],
                                           quality, t)
                      IN  [w3 EXCEPT
                              !.app.cards[current_card + 1] = r.card,
                              !.app.global_state = r.global,
                              !.sess.reviewed =
                                  [i \in DOMAIN @ \cup {r.card.card.id} |->
                                      IF i = r.card.card.id THEN r.card ELSE @[i]]]
                 ELSE w3

QualityKeys == {"0", "1", "2", "3", "4", "5"}

Keys == {"q", "space", "?", "other"} \cup QualityKeys

\* the quality a key stands for ('0' or 'a' ... '5' or the quote)
quality_of(key) ==
    CASE key = "0" -> 0 [] key = "1" -> 1 [] key = "2" -> 2
      [] key = "3" -> 3 [] key = "4" -> 4 [] OTHER -> 5

\* App::handle_key_event
handle_key_event(w, key, t, okDb, okSt) ==
    CASE key = "q" ->
            IF w.app.help THEN [w EXCEPT !.app.help = FALSE] ELSE exit(w, okDb, okSt)
      [] key = "space" /\ ~w.app.help -> [w EXCEPT !.app.revealed = TRUE]
      [] key = "?" -> [w EXCEPT !.app.help = ~w.app.help]
      [] key \in QualityKeys /\ ~w.app.help ->
            App_update_state(w, quality_of(key), t, okDb, okSt)
      [] OTHER -> w

\* App::handle_events, lines 111-113: the duration check made once an event is there
check_duration(w, okDb, okSt) ==
    IF w.app.elapsed >= w.app.max_duration THEN exit(w, okDb, okSt) ELSE w

\* App::handle_events when poll reports an event and read returns it
handle_events(w, key, t, okDb1, okSt1, okDb2, okSt2) ==
    handle_key_event(check_duration(w, okDb1, okSt1), key, t, okDb2, okSt2)

\* App::run over the keys of a whole session, as long as the loop goes on
RECURSIVE run(_, _, _, _, _)
run(w, keys, t, okDb, okSt) ==
    IF keys = <<>> \/ w.app.exit
    THEN w
    ELSE run(handle_events(w, Head(keys), t, okDb, okSt, okDb, okSt),
             Tail(keys), t, okDb, okSt)

----------------------------------------------------------------------------
(* main.rs: the commands, one process at a time *)

FoundLists == UNION {[1..n -> Card] : n \in 0..MaxFound}

ids_of(found_cards) == {found_cards[i].id : i \in DOMAIN found_cards}

TagSets == {{}, {"t"}}
CramHours == {0, 12}

\* Commands::Scan: the cards found by the scan go to update_db.  (A scan whose
\* write fails leaves the store as it was and returns the error.)
Scan(found_cards, full) ==
    /\ pc = "idle"
    /\ dbFile' = update_db(dbFile, found_cards, full, now, TRUE)
    /\ lastFull' = IF full
                   THEN [some |-> TRUE, ids |-> ids_of(found_cards)]
                   ELSE lastFull
    /\ UNCHANGED <<stateFile, now, pc, app, cram, result, sess>>
    /\ UNCHANGED lockVars
    /\ UNCHANGED writeVars
    /\ UNCHANGED algoVars
    /\ UNCHANGED scanVars
    /\ UNCHANGED concVars
    /\ UNCHANGED auditVars

\* Commands::Audit: the view lists the orphans and the leeches and hands the id
\* of a confirmed, non-leech card to delete_card.  (A delete whose write fails
\* leaves the store as it was.)
AuditDelete(id) ==
    /\ pc = "idle"
    /\ id \in DOMAIN dbFile
    /\ dbFile[id].orphan
    /\ ~dbFile[id].leech
    /\ dbFile' = delete_card(dbFile, id, TRUE)
    /\ UNCHANGED <<stateFile, now, pc, app, cram, result, lastFull, sess>>
    /\ UNCHANGED lockVars
    /\ UNCHANGED writeVars
    /\ UNCHANGED algoVars
    /\ UNCHANGED scanVars
    /\ UNCHANGED concVars
    /\ UNCHANGED auditVars

\* Commands::Revise, lines 352-365: load, filter, shuffle, take
revise_batches(db, in_cram, cram_hours, include_orphans, leech_method, maximum_cards, tags, today) ==
    Batches(db,
            filter_cards(db, tags, include_orphans, leech_method, in_cram,
                         cram_hours, today),
            maximum_cards)

\* the batches some choice of the options of Commands::Revise can produce
PossibleBatches(db, in_cram, today) ==
    UNION {revise_batches(db, in_cram, cram_hours, include_orphans, leech_method,
                          maximum_cards, tags, today) :
              cram_hours \in CramHours, include_orphans \in BOOLEAN,
              leech_method \in LeechMethods, maximum_cards \in 0..MaxCards,
              tags \in TagSets}

\* the keys of a run: some cards are answered, with 0 or with 5, then 'q'
RunQualityKeys == {"0", "5"}

KeyRuns ==
    {ks \o <<"q">> : ks \in UNION {[1..n -> RunQualityKeys] : n \in 0..MaxCards}}

\* the counter of reviews stays within the cap of the model
WithinCaps(w) == w.app.global_state.total_cards_revised <= MaxTotal

\* Commands::Revise without --cram as a whole, from the load to the return of
\* main, when no write fails: the process holds the lock, no other command runs
\* in between
ReviseRun(algorithm, leech_threshold, keys) ==
    /\ pc = "idle"
    /\ \E cards \in PossibleBatches(get_db(dbFile), FALSE, now) :
           /\ Len(keys) <= Len(cards) + 1
           /\ LET state == refresh_global_state(get_global_state(stateFile), now)
                  w0 == MkWorld(App_new(algorithm, cards, state, leech_threshold,
                                        MaxDuration),
                                FALSE, dbFile, stateFile, NoSess)
                  w == run(w0, keys, now, TRUE, TRUE)
              IN  /\ w.app.exit
                  /\ WithinCaps(w)
                  /\ dbFile' = w.db
                  /\ stateFile' = w.st
    /\ UNCHANGED <<now, pc, app, cram, result, lastFull, sess>>
    /\ UNCHANGED lockVars
    /\ UNCHANGED writeVars
    /\ UNCHANGED algoVars
    /\ UNCHANGED scanVars
    /\ UNCHANGED concVars
    /\ UNCHANGED auditVars

----------------------------------------------------------------------------
(* main.rs and view/revise.rs: one revise process, step by step *)

\* Commands::Revise up to App::new: load, refresh, filter, shuffle, take, init
StartRevise(algorithm, in_cram, leech_threshold, max_duration, initOk) ==
    /\ pc = "idle"
    /\ LET db == get_db(dbFile)
           state == refresh_global_state(get_global_state(stateFile), now)
       IN  \E cards \in PossibleBatches(db, in_cram, now) :
               IF initOk
               THEN /\ app' = App_new(algorithm, cards, state, leech_threshold,
                                      max_duration)
                    /\ pc' = "session"
                    /\ result' = "none"
               ELSE /\ app' = NoApp
                    /\ pc' = "returned"
                    /\ result' = "err"
    /\ cram' = in_cram
    /\ sess' = [NoSess EXCEPT !.ran = initOk, !.db0 = dbFile, !.st0 = stateFile]
    /\ UNCHANGED <<dbFile, stateFile, now, lastFull>>
    /\ UNCHANGED lockVars
    /\ UNCHANGED writeVars
    /\ UNCHANGED algoVars
    /\ UNCHANGED scanVars
    /\ UNCHANGED concVars
    /\ UNCHANGED auditVars

\* a second passes on the monotonic clock of the session
SessionTick ==
    /\ pc = "session"
    /\ ~app.exit
    /\ app.elapsed < MaxElapsed
    /\ app' = [app EXCEPT !.elapsed = @ + 1]
    /\ UNCHANGED <<dbFile, stateFile, now, pc, cram, result, lastFull, sess>>
    /\ UNCHANGED lockVars
    /\ UNCHANGED writeVars
    /\ UNCHANGED algoVars
    /\ UNCHANGED scanVars
    /\ UNCHANGED concVars
    /\ UNCHANGED auditVars

\* One turn of App::run in which draw succeeds, poll reports an event and read
\* returns a key.  (A turn without an event changes nothing.)
LoopEvent(key) ==
    /\ pc = "session"
    /\ ~app.exit
    /\ \E w \in {handle_events(World, key, now, okDb1, okSt1, okDb2, okSt2) :
                    okDb1 \in BOOLEAN, okSt1 \in BOOLEAN,
                    okDb2 \in BOOLEAN, okSt2 \in BOOLEAN} :
           /\ WithinCaps(w)
           /\ app' = w.app
           /\ dbFile' = w.db
           /\ stateFile' = w.st
           /\ sess' = w.sess
    /\ UNCHANGED <<now, pc, cram, result, lastFull>>
    /\ UNCHANGED lockVars
    /\ UNCHANGED writeVars
    /\ UNCHANGED algoVars
    /\ UNCHANGED scanVars
    /\ UNCHANGED concVars
    /\ UNCHANGED auditVars

\* One turn of App::run in which draw fails, or in which read fails after poll
\* reported an event: run returns the error, main restores the terminal and
\* returns the error.
LoopError(at) ==
    /\ pc = "session"
    /\ ~app.exit
    /\ at \in {"draw", "read"}
    /\ \E w \in IF at = "read"
                THEN {check_duration(World, okDb, okSt) :
                         okDb \in BOOLEAN, okSt \in BOOLEAN}
                ELSE {World} :
           /\ app' = w.app
           /\ dbFile' = w.db
           /\ stateFile' = w.st
           /\ sess' = w.sess
    /\ pc' = "returned"
    /\ result' = "err"
    /\ UNCHANGED <<now, cram, lastFull>>
    /\ UNCHANGED lockVars
    /\ UNCHANGED writeVars
    /\ UNCHANGED algoVars
    /\ UNCHANGED scanVars
    /\ UNCHANGED concVars
    /\ UNCHANGED auditVars

\* App::run leaves its loop, main restores the terminal and returns
SessionReturn(restoreOk) ==
    /\ pc = "session"
    /\ app.exit
    /\ pc' = "returned"
    /\ result' = IF restoreOk THEN "ok" ELSE "err"
    /\ UNCHANGED <<dbFile, stateFile, now, app, cram, lastFull, sess>>
    /\ UNCHANGED lockVars
    /\ UNCHANGED writeVars
    /\ UNCHANGED algoVars
    /\ UNCHANGED scanVars
    /\ UNCHANGED concVars
    /\ UNCHANGED auditVars

----------------------------------------------------------------------------
(* main.rs: the instance lock, several processes *)

Procs == 1..NumProcs

\* pc: "none" | "running" (holds a LockGuard) | "rejected" (exit(1) at the lock)
\* | "exited" (main returned); accessed: the command has read or written the
\* store, the global state or the scan index; removed: the process has removed
\* the marker; how: the way main returned
NoProc ==
    [pc |-> "none", force |-> FALSE, accessed |-> FALSE, removed |-> FALSE,
     how |-> "none"]

\* the returns of main once the guard exists: Ok(()) at the end, the early
\* return of an incremental scan without modified file, an error passed on by ?
ExitKinds == {"ok", "early", "err"}

\* a guard that is released at the regular end of main only
LockGuard_drop_at_end(marker_exists, how) ==
    IF how = "ok" THEN FALSE ELSE marker_exists

\* Drop for LockGuard: remove_file on every way out of main's scope; the value
\* is the presence of the marker afterwards
LockGuard_drop(marker_exists, how) == FALSE

\* a LockGuard::new that opens the marker without create_new
LockGuard_new_unchecked(marker_exists) == TRUE

\* LockGuard::new: create_new succeeds exactly when the marker is absent
LockGuard_new(marker_exists) == ~marker_exists

\* main, lines 267-277, without --force
StartLock(p) ==
    /\ proc[p].pc = "none"
    /\ IF LockGuard_new(marker)
       THEN /\ marker' = TRUE
            /\ proc' = [proc EXCEPT ![p] = [NoProc EXCEPT !.pc = "running"]]
       ELSE \* std::process::exit(1)
            /\ marker' = marker
            /\ proc' = [proc EXCEPT ![p] = [NoProc EXCEPT !.pc = "rejected"]]
    /\ UNCHANGED forced
    /\ UNCHANGED storeVars
    /\ UNCHANGED writeVars
    /\ UNCHANGED algoVars
    /\ UNCHANGED scanVars
    /\ UNCHANGED concVars
    /\ UNCHANGED auditVars

\* main, line 268: LockGuard::force_new removes the marker and creates it again
StartForce(p) ==
    /\ proc[p].pc = "none"
    /\ marker' = TRUE
    /\ proc' = [proc EXCEPT ![p] = [NoProc EXCEPT !.pc = "running", !.force = TRUE,
                                                   !.removed = marker]]
    /\ forced' = TRUE
    /\ UNCHANGED storeVars
    /\ UNCHANGED writeVars
    /\ UNCHANGED algoVars
    /\ UNCHANGED scanVars
    /\ UNCHANGED concVars
    /\ UNCHANGED auditVars

\* the command of a running process reads and writes the store, the global
\* state or the scan index
Work(p) ==
    /\ proc[p].pc = "running"
    /\ ~proc[p].accessed
    /\ proc' = [proc EXCEPT ![p].accessed = TRUE]
    /\ UNCHANGED <<marker, forced>>
    /\ UNCHANGED storeVars
    /\ UNCHANGED writeVars
    /\ UNCHANGED algoVars
    /\ UNCHANGED scanVars
    /\ UNCHANGED concVars
    /\ UNCHANGED auditVars

\* main returns, Ok or Err: the guard is dropped and removes the marker
Finish(p, how) ==
    /\ proc[p].pc = "running"
    /\ marker' = LockGuard_drop(marker, how)
    /\ proc' = [proc EXCEPT ![p].pc = "exited", ![p].how = how,
                            ![p].removed = @ \/ (marker /\ ~marker')]
    /\ UNCHANGED forced
    /\ UNCHANGED storeVars
    /\ UNCHANGED writeVars
    /\ UNCHANGED algoVars
    /\ UNCHANGED scanVars
    /\ UNCHANGED concVars
    /\ UNCHANGED auditVars

\* the process that ended is forgotten; its slot serves the next start
Reap(p) ==
    /\ proc[p].pc \in {"exited", "rejected"}
    /\ proc' = [proc EXCEPT ![p] = NoProc]
    /\ UNCHANGED <<marker, forced>>
    /\ UNCHANGED storeVars
    /\ UNCHANGED writeVars
    /\ UNCHANGED algoVars
    /\ UNCHANGED scanVars
    /\ UNCHANGED concVars
    /\ UNCHANGED auditVars

----------------------------------------------------------------------------
(* db.rs: atomic_write, step by step, on a file system of paths and contents *)

\* a path is a stem and an extension; a content is a string of bytes
Paths == [stem : {"cards"}, ext : {"json", "tmp"}]
\* the bytes of a content: the brackets of a JSON array and white space
Bytes == {"[", "]", " "}
RECURSIVE SeqsUpTo(_)
SeqsUpTo(n) ==
    IF n = 0 THEN {<<>>}
    ELSE LET shorter == SeqsUpTo(n - 1)
         IN  shorter \cup {Append(c, b) : c \in {x \in shorter : Len(x) = n - 1},
                                          b \in Bytes}
Contents == SeqsUpTo(MaxLen)
\* what a path names: no file, or a file and its bytes
Absent == [exists |-> FALSE, data |-> <<>>]
FileOf(content) == [exists |-> TRUE, data |-> content]

\* a temp file named after the target itself
with_extension_keep(path, ext) == path

\* Path::with_extension: the extension of the path is replaced
with_extension(path, ext) == [path EXCEPT !.ext = ext]

\* atomic_write, line 18
temp_path_of(path) == with_extension(path, "tmp")

NoWrite ==
    [pc |-> "idle", path |-> [stem |-> "cards", ext |-> "json"], content |-> <<>>,
     old |-> Absent, res |-> "none"]

\* write_db or write_global_state calls atomic_write(path, content)
AwStart(path, content) ==
    /\ aw.pc = "idle"
    /\ aw' = [pc |-> "remove", path |-> path, content |-> content,
              old |-> fs[path], res |-> "none"]
    /\ UNCHANGED fs
    /\ UNCHANGED <<storeVars, lockVars, algoVars, scanVars, concVars, auditVars>>

\* line 21: let _ = fs::remove_file(&temp_path); a failure is ignored
AwRemoveStale(ok) ==
    /\ aw.pc = "remove"
    /\ fs' = IF ok THEN [fs EXCEPT ![temp_path_of(aw.path)] = Absent] ELSE fs
    /\ aw' = [aw EXCEPT !.pc = "create"]
    /\ UNCHANGED <<storeVars, lockVars, algoVars, scanVars, concVars, auditVars>>

\* lines 24-25: File::create makes the temp file or truncates it
AwCreate(ok) ==
    /\ aw.pc = "create"
    /\ IF ok
       THEN /\ fs' = [fs EXCEPT ![temp_path_of(aw.path)] = FileOf(<<>>)]
            /\ aw' = [aw EXCEPT !.pc = "write"]
       ELSE /\ fs' = fs
            /\ aw' = [aw EXCEPT !.pc = "done", !.res = "err"]
    /\ UNCHANGED <<storeVars, lockVars, algoVars, scanVars, concVars, auditVars>>

\* lines 27-29: write_all appends the bytes of the content one after the other
\* and may fail after any of them
AwWrite(ok) ==
    /\ aw.pc = "write"
    /\ LET temp == temp_path_of(aw.path)
           n == Len(fs[temp].data)
       IN  IF ~ok
           THEN /\ fs' = fs
                /\ aw' = [aw EXCEPT !.pc = "done", !.res = "err"]
           ELSE IF n < Len(aw.content)
           THEN /\ fs' = [fs EXCEPT ![temp].data = Append(@, aw.content[n + 1])]
                /\ aw' = aw
           ELSE /\ fs' = fs
                /\ aw' = [aw EXCEPT !.pc = "sync"]
    /\ UNCHANGED <<storeVars, lockVars, algoVars, scanVars, concVars, auditVars>>

\* lines 31-33: sync_all
AwSync(ok) ==
    /\ aw.pc = "sync"
    /\ aw' = IF ok THEN [aw EXCEPT !.pc = "rename"]
             ELSE [aw EXCEPT !.pc = "done", !.res = "err"]
    /\ UNCHANGED fs
    /\ UNCHANGED <<storeVars, lockVars, algoVars, scanVars, concVars, auditVars>>

\* lines 36-42: fs::rename replaces the target by the temp file in one step;
\* renaming a file to itself does nothing
AwRename(ok) ==
    /\ aw.pc = "rename"
    /\ LET temp == temp_path_of(aw.path)
       IN  IF ok
           THEN /\ fs' = IF temp = aw.path THEN fs
                         ELSE [fs EXCEPT ![aw.path] = fs[temp], ![temp] = Absent]
                /\ aw' = [aw EXCEPT !.pc = "done", !.res = "ok"]
           ELSE /\ fs' = fs
                /\ aw' = [aw EXCEPT !.pc = "done", !.res = "err"]
    /\ UNCHANGED <<storeVars, lockVars, algoVars, scanVars, concVars, auditVars>>

\* the process is interrupted in the middle of the save
AwInterrupt ==
    /\ aw.pc \in {"remove", "create", "write", "sync", "rename"}
    /\ aw' = [aw EXCEPT !.pc = "done", !.res = "interrupted"]
    /\ UNCHANGED fs
    /\ UNCHANGED <<storeVars, lockVars, algoVars, scanVars, concVars, auditVars>>

\* the next save starts from what this one left
AwReturn ==
    /\ aw.pc = "done"
    /\ aw' = NoWrite
    /\ UNCHANGED fs
    /\ UNCHANGED <<storeVars, lockVars, algoVars, scanVars, concVars, auditVars>>

\* str::trim().is_empty(): nothing but white space
is_blank(data) == SelectSeq(data, LAMBDA b : b # " ") = <<>>

\* serde_json::from_str::<Vec<CardEntry>>: of the strings over Bytes only the
\* empty array, with white space anywhere, is a list of entries
from_str(data) ==
    IF SelectSeq(data, LAMBDA b : b # " ") = <<"[", "]">>
    THEN [ok |-> TRUE, db |-> EmptyFn]
    ELSE [ok |-> FALSE, db |-> EmptyFn]

\* get_db on what the path names: Ok(store) or Err
get_db_at(file) ==
    IF ~file.exists THEN [ok |-> TRUE, db |-> EmptyFn]
    ELSE IF is_blank(file.data) THEN [ok |-> TRUE, db |-> EmptyFn]
    ELSE from_str(file.data)

----------------------------------------------------------------------------
(* algorithm: Algorithm::update_state applied to one card, review after review *)

\* rev: the algorithm, the card state and the global state; before, gbefore and
\* quality are the arguments of the latest update_state, start the first card
\* state and hist the qualities and the card states of all reviews so far

\* the card states a sequence of reviews starts from: the default state, and
\* states with the least ease factor, with earlier repetitions or with
\* earlier failures
StartStates ==
    {[CardState_default EXCEPT !.ease_factor = ef, !.interval = ir[1],
                               !.repetitions = ir[2], !.failed_count = fc] :
        ef \in {130, 250}, ir \in {<<0, 0>>, <<1, 1>>, <<6, 2>>}, fc \in {0, 5}}

NoReview(algo, state) ==
    [algo |-> algo, state |-> state, global |-> GlobalState_default,
     before |-> state, gbefore |-> GlobalState_default, quality |-> None, n |-> 0,
     start |-> state, hist |-> <<>>]

\* one review of the card: update_meanq, then update_state of the algorithm
Review(quality) ==
    /\ rev.n < MaxReviews
    /\ LET g == update_meanq(rev.global, quality)
           r == algorithm_update_state(rev.algo, quality, rev.state, g)
       IN  rev' = [rev EXCEPT !.state = r.state, !.global = r.global,
                              !.before = rev.state, !.gbefore = g,
                              !.quality = quality, !.n = rev.n + 1,
                              !.hist = Append(@, [quality |-> quality,
                                                  state |-> r.state])]
    /\ UNCHANGED <<storeVars, lockVars, writeVars, scanVars, concVars, auditVars>>

----------------------------------------------------------------------------
(* main.rs: Commands::Scan on a directory, the scan index *)

\* the files a walk of the directory can discover; each holds one card
Files == 1..NumFiles
Mtimes == 0..MaxMtime

\* collect_files: the files that exist
collect_files(t) == {f \in Files : t[f] # None}

\* index.get(&key).copied().unwrap_or(0)
recorded(index, f) == IF f \in DOMAIN index THEN index[f] ELSE 0

\* a selection that also takes the files whose time equals the recorded one
to_scan_of_not_older(files, index, t, full) ==
    IF full THEN files ELSE {f \in files : recorded(index, f) <= t[f]}

\* lines 291-302: the files to parse
to_scan_of(files, index, t, full) ==
    IF full THEN files ELSE {f \in files : recorded(index, f) < t[f]}

\* lines 291-302: the index after the selection; only the loop of the
\* incremental branch inserts into it
restamp(files, index, t, full) ==
    IF full THEN index
    ELSE [f \in DOMAIN index \cup files |-> IF f \in files THEN t[f] ELSE index[f]]

\* the cards parsed from a set of files, in the order of the walk
RECURSIVE cards_of(_)
cards_of(files) ==
    IF files = {} THEN <<>>
    ELSE LET f == CHOOSE x \in files : \A y \in files : x <= y
         IN  <<[id |-> ((f - 1) % NumIds) + 1, ver |-> 1]>> \o cards_of(files \ {f})

\* save_scan_index: fs::write, its failure ignored; a failed write leaves the
\* old content or a content that load_scan_index reads as the empty index
save_scan_index(old, index, save) ==
    CASE save = "ok" -> index
      [] save = "kept" -> old
      [] OTHER -> EmptyFn

load_scan_index(file) == file

NoScan ==
    [outcome |-> "none", full |-> FALSE, files |-> {}, parsed |-> {},
     index0 |-> EmptyFn, save |-> "none", stored |-> {}]

\* a file is created, written or given another modification time
Touch(f, m) ==
    /\ pc = "idle"
    /\ tree[f] # m
    /\ tree' = [tree EXCEPT ![f] = m]
    /\ scan' = NoScan
    /\ UNCHANGED indexFile
    /\ UNCHANGED <<storeVars, lockVars, writeVars, algoVars, concVars, auditVars>>

\* a file is removed
RemoveFile(f) ==
    /\ pc = "idle"
    /\ tree[f] # None
    /\ tree' = [tree EXCEPT ![f] = None]
    /\ scan' = NoScan
    /\ UNCHANGED indexFile
    /\ UNCHANGED <<storeVars, lockVars, writeVars, algoVars, concVars, auditVars>>

\* Commands::Scan with a directory, lines 279-328: selection, early return,
\* parse, save of the index, update_db; stored: the files whose cards a
\* successful update_db has written
ScanDir(full, parseOk, save, dbOk) ==
    /\ pc = "idle"
    /\ LET index == load_scan_index(indexFile)
           files == collect_files(tree)
           to_scan == to_scan_of(files, index, tree, full)
           index2 == restamp(files, index, tree, full)
           log == [NoScan EXCEPT !.full = full, !.files = files, !.index0 = index]
       IN  IF ~full /\ to_scan = {}
           THEN \* lines 305-308: return Ok(())
                /\ scan' = [log EXCEPT !.outcome = "skipped"]
                /\ UNCHANGED <<indexFile, dbFile, lastFull>>
           ELSE IF ~parseOk
           THEN \* line 312: card::parse_file(&f)?
                /\ scan' = [log EXCEPT !.outcome = "err"]
                /\ UNCHANGED <<indexFile, dbFile, lastFull>>
           ELSE /\ scan' = [log EXCEPT !.outcome = "scanned", !.parsed = to_scan,
                                       !.save = save,
                                       !.stored = IF dbOk THEN to_scan ELSE {}]
                /\ indexFile' = save_scan_index(indexFile, index2, save)
                /\ dbFile' = update_db(dbFile, cards_of(to_scan), full, now, dbOk)
                /\ lastFull' = IF full /\ dbOk
                               THEN [some |-> TRUE, ids |-> ids_of(cards_of(to_scan))]
                               ELSE lastFull
    /\ UNCHANGED tree
    /\ UNCHANGED <<stateFile, now, pc, app, cram, result, sess>>
    /\ UNCHANGED <<lockVars, writeVars, algoVars, concVars, auditVars>>

\* Commands::Scan with a single file, lines 318-325: the index is stamped and
\* saved, then the file is parsed; line 328: update_db
ScanFile(f, full, parseOk, save, dbOk) ==
    /\ pc = "idle"
    /\ tree[f] # None
    /\ LET index == load_scan_index(indexFile)
           index2 == [g \in DOMAIN index \cup {f} |->
                         IF g = f THEN tree[f] ELSE index[g]]
           log == [NoScan EXCEPT !.full = full, !.files = {f}, !.index0 = index,
                                 !.save = save]
       IN  /\ indexFile' = save_scan_index(indexFile, index2, save)
           /\ IF ~parseOk
              THEN \* line 324: card::parse_file(&path)?
                   /\ scan' = [log EXCEPT !.outcome = "file_err"]
                   /\ UNCHANGED <<dbFile, lastFull>>
              ELSE /\ scan' = [log EXCEPT !.outcome = "file", !.parsed = {f},
                                          !.stored = IF dbOk THEN {f} ELSE {}]
                   /\ dbFile' = update_db(dbFile, cards_of({f}), full, now, dbOk)
                   /\ lastFull' = IF full /\ dbOk
                                  THEN [some |-> TRUE, ids |-> ids_of(cards_of({f}))]
                                  ELSE lastFull
    /\ UNCHANGED tree
    /\ UNCHANGED <<stateFile, now, pc, app, cram, result, sess>>
    /\ UNCHANGED <<lockVars, writeVars, algoVars, concVars, auditVars>>

----------------------------------------------------------------------------
(* db.rs: get_db and write_db by several threads on the same path, as in
   test_concurrent_database_access; a path names an inode, a handle keeps its
   inode when the path is removed or renamed *)

Threads == 1..NumThreads
\* inode 0 is the file that write_db left before the threads were spawned,
\* inode t the file that thread t created
Inodes == 0..NumThreads

db_path == [stem |-> "cards", ext |-> "json"]

\* serde_json::to_string of the empty list of entries
EmptyDbJson == <<"[", "]">>

\* the byte that fills the gap when a write lands beyond the end of a file
Nul == "0"

\* write of one byte at an offset of a file
write_at(data, pos, b) ==
    IF pos < Len(data)
    THEN [data EXCEPT ![pos + 1] = b]
    ELSE data \o [i \in 1..(pos - Len(data)) |-> Nul] \o <<b>>

NoThread ==
    [pc |-> "exists", fd |-> None, pos |-> 0, read |-> <<>>, loaded |-> "none",
     saved |-> "none"]

\* get_db, lines 121-124: db_path.exists()
ThExists(t) ==
    /\ thr[t].pc = "exists"
    /\ thr' = IF disk.name[db_path] = None
              THEN [thr EXCEPT ![t].pc = "remove", ![t].loaded = "ok"]
              ELSE [thr EXCEPT ![t].pc = "read"]
    /\ UNCHANGED disk
    /\ UNCHANGED <<storeVars, lockVars, writeVars, algoVars, scanVars, auditVars>>

\* get_db, lines 125-137: read_to_string, then the blank test and from_str
ThRead(t) ==
    /\ thr[t].pc = "read"
    /\ LET i == disk.name[db_path]
       IN  IF i = None
           THEN thr' = [thr EXCEPT ![t].pc = "remove", ![t].loaded = "err"]
           ELSE thr' = [thr EXCEPT
                           ![t].pc = "remove",
                           ![t].read = disk.data[i],
                           ![t].loaded = IF get_db_at(FileOf(disk.data[i])).ok
                                         THEN "ok" ELSE "err"]
    /\ UNCHANGED disk
    /\ UNCHANGED <<storeVars, lockVars, writeVars, algoVars, scanVars, auditVars>>

\* atomic_write, line 21: the temp path is removed, whoever made the file
ThRemove(t) ==
    /\ thr[t].pc = "remove"
    /\ disk' = [disk EXCEPT !.name[temp_path_of(db_path)] = None]
    /\ thr' = [thr EXCEPT ![t].pc = "create"]
    /\ UNCHANGED <<storeVars, lockVars, writeVars, algoVars, scanVars, auditVars>>

\* atomic_write, lines 24-25: File::create makes a file at the temp path, or
\* truncates the file that is there, and keeps a handle on it
ThCreate(t) ==
    /\ thr[t].pc = "create"
    /\ LET temp == temp_path_of(db_path)
           i == IF disk.name[temp] = None THEN t ELSE disk.name[temp]
       IN  /\ disk' = [disk EXCEPT !.name[temp] = i, !.data[i] = <<>>]
           /\ thr' = [thr EXCEPT ![t].pc = "write", ![t].fd = i, ![t].pos = 0]
    /\ UNCHANGED <<storeVars, lockVars, writeVars, algoVars, scanVars, auditVars>>

\* atomic_write, lines 27-29: write_all writes the bytes through the handle,
\* one after the other, at the offset of the handle
ThWrite(t) ==
    /\ thr[t].pc = "write"
    /\ LET n == thr[t].pos
       IN  IF n < Len(EmptyDbJson)
           THEN /\ disk' = [disk EXCEPT
                               !.data[thr[t].fd] = write_at(@, n, EmptyDbJson[n + 1])]
                /\ thr' = [thr EXCEPT ![t].pos = n + 1]
           ELSE /\ disk' = disk
                /\ thr' = [thr EXCEPT ![t].pc = "sync"]
    /\ UNCHANGED <<storeVars, lockVars, writeVars, algoVars, scanVars, auditVars>>

\* atomic_write, lines 31-33: sync_all
ThSync(t) ==
    /\ thr[t].pc = "sync"
    /\ thr' = [thr EXCEPT ![t].pc = "rename"]
    /\ UNCHANGED disk
    /\ UNCHANGED <<storeVars, lockVars, writeVars, algoVars, scanVars, auditVars>>

\* atomic_write, lines 36-42: fs::rename moves whatever file the temp path
\* names to the target, and fails when the temp path names none
ThRename(t) ==
    /\ thr[t].pc = "rename"
    /\ LET temp == temp_path_of(db_path)
       IN  IF disk.name[temp] = None
           THEN /\ disk' = disk
                /\ thr' = [thr EXCEPT ![t].pc = "done", ![t].saved = "err"]
           ELSE /\ disk' = [disk EXCEPT !.name[db_path] = disk.name[temp],
                                        !.name[temp] = None]
                /\ thr' = [thr EXCEPT ![t].pc = "done", ![t].saved = "ok"]
    /\ UNCHANGED <<storeVars, lockVars, writeVars, algoVars, scanVars, auditVars>>

----------------------------------------------------------------------------
(* view/audit.rs: the audit view; main.rs: Commands::Audit *)

\* Vec::remove and Vec::insert at an index counted from 0
remove_at(list, i) == SubSeq(list, 1, i) \o SubSeq(list, i + 2, Len(list))
insert_at(list, i, x) == SubSeq(list, 1, i) \o <<x>> \o SubSeq(list, i + 1, Len(list))

\* the fields of the App; key, asked and calls are history: the latest key, the
\* card that was current at the latest 'd' and the calls of delete_fn;
\* panicked: an index out of range ended the process
NoAudit ==
    [cards |-> <<>>, current_card |-> 0, exit |-> FALSE, sure |-> FALSE,
     panicked |-> FALSE, key |-> "none", asked |-> None, calls |-> <<>>]

Audit_App_new(cards) == [NoAudit EXCEPT !.cards = cards]

AuditKeys == {"q", "d", "n", "y", "left", "right", "other"}

\* 'y' handled as if the card were no leech
Audit_confirm_any(w, ok) ==
    LET a == w.a
    IN  IF ~a.sure THEN w
        ELSE IF a.current_card >= Len(a.cards)
        THEN [w EXCEPT !.a.panicked = TRUE]
        ELSE LET card == a.cards[a.current_card + 1]
                 rest == remove_at(a.cards, a.current_card)
                 res == delete_card_result(w.db, card.card.id, ok)
                 call == [id |-> card.card.id, res |-> res, asked |-> a.asked]
             IN  IF res = "err"
                 THEN [w EXCEPT
                          !.a.cards = insert_at(rest, a.current_card, card),
                          !.a.sure = FALSE,
                          !.a.calls = Append(@, call),
                          !.db = delete_card(w.db, card.card.id, ok)]
                 ELSE [w EXCEPT
                          !.a.cards = rest,
                          !.a.current_card =
                              IF a.current_card >= Len(rest) /\ rest # <<>>
                              THEN Len(rest) - 1 ELSE a.current_card,
                          !.a.sure = FALSE,
                          !.a.calls = Append(@, call),
                          !.db = delete_card(w.db, card.card.id, ok)]

\* lines 72-91: 'y' when sure: the current card is taken out of the list; a
\* leech is pushed back at the end, another card is handed to delete_fn and put
\* back where it was when the call fails
Audit_confirm(w, ok) ==
    LET a == w.a
    IN  IF ~a.sure THEN w
        ELSE IF a.current_card >= Len(a.cards)
        THEN [w EXCEPT !.a.panicked = TRUE]
        ELSE LET card == a.cards[a.current_card + 1]
                 rest == remove_at(a.cards, a.current_card)
                 res == delete_card_result(w.db, card.card.id, ok)
                 call == [id |-> card.card.id, res |-> res, asked |-> a.asked]
             IN  IF card.leech
                 THEN [w EXCEPT !.a.cards = Append(rest, card)]
                 ELSE IF res = "err"
                 THEN [w EXCEPT
                          !.a.cards = insert_at(rest, a.current_card, card),
                          !.a.sure = FALSE,
                          !.a.calls = Append(@, call),
                          !.db = delete_card(w.db, card.card.id, ok)]
                 ELSE [w EXCEPT
                          !.a.cards = rest,
                          !.a.current_card =
                              IF a.current_card >= Len(rest) /\ rest # <<>>
                              THEN Len(rest) - 1 ELSE a.current_card,
                          !.a.sure = FALSE,
                          !.a.calls = Append(@, call),
                          !.db = delete_card(w.db, card.card.id, ok)]

\* a navigation to the right that does not stop at the last card
Audit_right_unbounded(a) == [a EXCEPT !.current_card = @ + 1]

\* lines 100-107
Audit_right(a) ==
    IF a.cards = <<>> THEN a
    ELSE IF a.current_card < Len(a.cards) - 1
    THEN [a EXCEPT !.current_card = @ + 1]
    ELSE a

\* lines 92-99
Audit_left(a) ==
    IF a.cards = <<>> THEN a
    ELSE IF a.current_card > 0 THEN [a EXCEPT !.current_card = @ - 1]
    ELSE a

\* App::handle_key_event, lines 61-110, on the App and the store; ok: the
\* write of delete_card succeeds
Audit_handle_key_event(w, key, ok) ==
    LET a == w.a
        v == CASE key = "q" -> [w EXCEPT !.a.exit = TRUE]
               [] key = "d" ->
                    IF a.cards # <<>>
                    THEN [w EXCEPT
                             !.a.sure = TRUE,
                             !.a.asked = IF a.current_card < Len(a.cards)
                                         THEN a.cards[a.current_card + 1].card.id
                                         ELSE None]
                    ELSE w
               [] key = "n" -> [w EXCEPT !.a.sure = FALSE]
               [] key = "y" -> Audit_confirm(w, ok)
               [] key = "left" -> [w EXCEPT !.a = Audit_left(a)]
               [] key = "right" -> [w EXCEPT !.a = Audit_right(a)]
               [] OTHER -> w
    IN  [v EXCEPT !.a.key = key]

\* Commands::Audit up to App::new: the orphans and the leeches of the store, in
\* the order that the hash map yields them
StartAudit(initOk) ==
    /\ pc = "idle"
    /\ LET db == get_db(dbFile)
           ids == {id \in DOMAIN db : db[id].orphan \/ db[id].leech}
       IN  \E cards \in Batches(db, ids, Cardinality(ids)) :
               IF initOk
               THEN /\ aud' = Audit_App_new(cards)
                    /\ pc' = "audit"
                    /\ result' = "none"
               ELSE /\ aud' = NoAudit
                    /\ pc' = "returned"
                    /\ result' = "err"
    /\ UNCHANGED <<dbFile, stateFile, now, app, cram, lastFull, sess>>
    /\ UNCHANGED <<lockVars, writeVars, algoVars, scanVars, concVars>>

\* One turn of App::run in which poll reports a key press and read returns it
AuditKey(key, ok) ==
    /\ pc = "audit"
    /\ ~aud.exit
    /\ ~aud.panicked
    /\ Len(aud.calls) < MaxCalls
    /\ LET w == Audit_handle_key_event([a |-> aud, db |-> dbFile], key, ok)
       IN  /\ aud' = w.a
           /\ dbFile' = w.db
    /\ UNCHANGED <<stateFile, now, pc, app, cram, result, lastFull, sess>>
    /\ UNCHANGED <<lockVars, writeVars, algoVars, scanVars, concVars>>

\* One turn of App::run in which draw or read fails: run returns the error
AuditError ==
    /\ pc = "audit"
    /\ ~aud.exit
    /\ ~aud.panicked
    /\ pc' = "returned"
    /\ result' = "err"
    /\ UNCHANGED <<dbFile, stateFile, now, app, cram, lastFull, sess, aud>>
    /\ UNCHANGED <<lockVars, writeVars, algoVars, scanVars, concVars>>

\* App::run leaves its loop, main restores the terminal and returns
AuditReturn(restoreOk) ==
    /\ pc = "audit"
    /\ aud.exit
    /\ pc' = "returned"
    /\ result' = IF restoreOk THEN "ok" ELSE "err"
    /\ UNCHANGED <<dbFile, stateFile, now, app, cram, lastFull, sess, aud>>
    /\ UNCHANGED <<lockVars, writeVars, algoVars, scanVars, concVars>>

----------------------------------------------------------------------------
(* Specifications *)

InitScan ==
    /\ tree = [f \in Files |-> None]
    /\ indexFile = EmptyFn
    /\ scan = NoScan

\* the store was saved once, empty, before the threads start
InitConc ==
    /\ disk = [name |-> [p \in Paths |-> IF p = db_path THEN 0 ELSE None],
               data |-> [i \in Inodes |-> IF i = 0 THEN EmptyDbJson ELSE <<>>]]
    /\ thr = [t \in Threads |-> NoThread]

InitAudit == aud = NoAudit

InitRestNoRev ==
    /\ stateFile = GlobalState_default
    /\ now = 0
    /\ pc = "idle"
    /\ app = NoApp
    /\ cram = FALSE
    /\ result = "none"
    /\ lastFull = [some |-> FALSE, ids |-> {}]
    /\ sess = NoSess
    /\ marker = FALSE
    /\ proc = [p \in Procs |-> NoProc]
    /\ forced = FALSE
    /\ fs = [p \in Paths |-> Absent]
    /\ aw = NoWrite
    /\ InitConc
    /\ InitAudit

InitRest ==
    /\ InitRestNoRev
    /\ InitScan
    /\ rev = NoReview("SM2", CardState_default)

\* the store, the state file and the lock marker do not exist yet
Init ==
    /\ dbFile = EmptyFn
    /\ InitRest

\* the commands, each a whole process
Next ==
    \/ \E found_cards \in FoundLists, full \in BOOLEAN : Scan(found_cards, full)
    \/ \E id \in Ids : AuditDelete(id)
    \/ \E algorithm \in Algos, leech_threshold \in 1..MaxThreshold, keys \in KeyRuns :
           ReviseRun(algorithm, leech_threshold, keys)

Spec == Init /\ [][Next]_vars

\* a revise process started on the store that a first scan of one card per id
\* left
SessionInit ==
    /\ dbFile = update_db(EmptyFn, [i \in 1..NumIds |-> [id |-> i, ver |-> 1]],
                          FALSE, 0, TRUE)
    /\ InitRest

SessionNext ==
    \/ \E algorithm \in Algos, in_cram \in BOOLEAN,
          leech_threshold \in 1..MaxThreshold, max_duration \in 1..MaxDuration,
          initOk \in BOOLEAN :
           StartRevise(algorithm, in_cram, leech_threshold, max_duration, initOk)
    \/ SessionTick
    \/ \E key \in Keys : LoopEvent(key)
    \/ \E at \in {"draw", "read"} : LoopError(at)
    \/ \E restoreOk \in BOOLEAN : SessionReturn(restoreOk)

SessionSpec == SessionInit /\ [][SessionNext]_vars

\* App::run, lines 96-107, goes round its loop by itself: each turn draws and
\* polls for at most one second, so the clock of the session goes on
\* (SessionTick), and the loop is left once exit is set (SessionReturn).  An
\* event of the terminal is the user's doing and nothing forces one to come
\* (LoopEvent, LoopError): a turn whose poll times out reads nothing and
\* changes nothing but the clock.
SessionLiveSpec ==
    /\ SessionInit
    /\ [][SessionNext]_vars
    /\ WF_vars(SessionTick)
    /\ WF_vars(\E restoreOk \in BOOLEAN : SessionReturn(restoreOk))

LockNext ==
    \/ \E p \in Procs : StartLock(p)
    \/ \E p \in Procs : StartForce(p)
    \/ \E p \in Procs : Work(p)
    \/ \E p \in Procs, how \in ExitKinds : Finish(p, how)
    \/ \E p \in Procs : Reap(p)

LockSpec == Init /\ [][LockNext]_vars

\* saves to a store path, one after the other
WriteNext ==
    \/ \E path \in Paths, content \in Contents : AwStart(path, content)
    \/ \E ok \in BOOLEAN : AwRemoveStale(ok)
    \/ \E ok \in BOOLEAN : AwCreate(ok)
    \/ \E ok \in BOOLEAN : AwWrite(ok)
    \/ \E ok \in BOOLEAN : AwSync(ok)
    \/ \E ok \in BOOLEAN : AwRename(ok)
    \/ AwInterrupt
    \/ AwReturn

WriteSpec == Init /\ [][WriteNext]_vars

\* reviews of one card by one algorithm, from every start state
AlgoInit ==
    /\ dbFile = EmptyFn
    /\ InitRestNoRev
    /\ InitScan
    /\ rev \in {NoReview(algo, state) : algo \in Algos, state \in StartStates}

AlgoNext == \E quality \in Qualities : Review(quality)

AlgoSpec == AlgoInit /\ [][AlgoNext]_vars

\* directory scans, full or incremental, of files that come, change and go;
\* update_db succeeds
ScanNext ==
    \/ \E f \in Files, m \in Mtimes : Touch(f, m)
    \/ \E f \in Files : RemoveFile(f)
    \/ \E full \in BOOLEAN, parseOk \in BOOLEAN, save \in {"ok", "kept", "lost"} :
           ScanDir(full, parseOk, save, TRUE)

ScanSpec == Init /\ [][ScanNext]_vars

\* scans of a directory or of a single file, in which update_db may fail too
ScanFailNext ==
    \/ \E f \in Files, m \in Mtimes : Touch(f, m)
    \/ \E f \in Files : RemoveFile(f)
    \/ \E full \in BOOLEAN, parseOk \in BOOLEAN, save \in {"ok", "kept", "lost"},
          dbOk \in BOOLEAN :
           ScanDir(full, parseOk, save, dbOk)
    \/ \E f \in Files, full \in BOOLEAN, parseOk \in BOOLEAN,
          save \in {"ok", "kept", "lost"}, dbOk \in BOOLEAN :
           ScanFile(f, full, parseOk, save, dbOk)

ScanFailSpec == Init /\ [][ScanFailNext]_vars

\* the threads of test_concurrent_database_access past the barrier
ConcNext ==
    \/ \E t \in Threads : ThExists(t)
    \/ \E t \in Threads : ThRead(t)
    \/ \E t \in Threads : ThRemove(t)
    \/ \E t \in Threads : ThCreate(t)
    \/ \E t \in Threads : ThWrite(t)
    \/ \E t \in Threads : ThSync(t)
    \/ \E t \in Threads : ThRename(t)

ConcSpec == Init /\ [][ConcNext]_vars

\* an audit of a store whose cards are orphans, leeches, both or neither
AuditInit ==
    /\ dbFile \in {[id \in Ids |->
                      [CardEntry_new([id |-> id, ver |-> 1], 0) EXCEPT
                          !.orphan = o[id], !.leech = l[id]]] :
                   o \in [Ids -> BOOLEAN], l \in [Ids -> BOOLEAN]}
    /\ InitRest

AuditNext ==
    \/ \E initOk \in BOOLEAN : StartAudit(initOk)
    \/ \E key \in AuditKeys, ok \in BOOLEAN : AuditKey(key, ok)
    \/ AuditError
    \/ \E restoreOk \in BOOLEAN : AuditReturn(restoreOk)

AuditSpec == AuditInit /\ [][AuditNext]_vars

----------------------------------------------------------------------------
(* Properties of update_db, checked on every store the commands can reach *)

\* the clock readings of a call made now or a moment later
CallTimes(t) == {t, t + 1}

\* C1: update_db applied a second time with the same found list and the same
\* full flag leaves the store as the first application left it, for every
\* reachable store, every found list and both values of full.
C1_UpdateDbIdempotent ==
    \A found_cards \in FoundLists, full \in BOOLEAN, t2 \in CallTimes(now) :
        LET first == update_db(dbFile, found_cards, full, now, TRUE)
        IN  update_db(first, found_cards, full, t2, TRUE) = first

\* a store with a reviewed entry and an orphan, left by a full scan that a
\* second application does not change although other scans would
C1_Witness ==
    /\ lastFull.some
    /\ \E id \in DOMAIN dbFile : dbFile[id].revise_count > 0
    /\ \E id \in DOMAIN dbFile : dbFile[id].orphan
    /\ \E found_cards \in FoundLists :
           /\ found_cards # <<>>
           /\ ids_of(found_cards) = lastFull.ids
           /\ update_db(dbFile, found_cards, TRUE, now + 1, TRUE) = dbFile

\* C2: after update_db(found, full = true), for every store and every found
\* list, the empty one included, the orphan entries are exactly the entries
\* whose id does not occur in found, and no id of the store is lost.
C2_FullMarksExactlyAbsent ==
    \A found_cards \in FoundLists :
        LET after == update_db(dbFile, found_cards, TRUE, now, TRUE)
        IN  /\ {id \in DOMAIN after : after[id].orphan}
                   = DOMAIN after \ ids_of(found_cards)
            /\ DOMAIN dbFile \subseteq DOMAIN after

\* the cards of a found list that carry an id
found_with(found_cards, id) ==
    {found_cards[i] : i \in {j \in DOMAIN found_cards : found_cards[j].id = id}}

\* C3: update_db changes an entry whose id is in found only in card (a found
\* card of that id) and orphan (cleared); an id in found that the store did not
\* have gets one fresh entry, also when found names it several times; with
\* full = false the entries whose id is not in found are unchanged.
C3_UpdateDbFrame ==
    \A found_cards \in FoundLists, full \in BOOLEAN :
        LET after == update_db(dbFile, found_cards, full, now, TRUE)
            found_ids == ids_of(found_cards)
        IN  /\ DOMAIN after = DOMAIN dbFile \cup found_ids
            /\ \A id \in DOMAIN dbFile \cap found_ids :
                   /\ after[id].card \in found_with(found_cards, id)
                   /\ after[id] = [dbFile[id] EXCEPT !.card = after[id].card,
                                                     !.orphan = FALSE]
            /\ \A id \in found_ids \ DOMAIN dbFile :
                   /\ after[id].card \in found_with(found_cards, id)
                   /\ after[id] = CardEntry_new(after[id].card, now)
                   /\ after[id].state = CardState_default
                   /\ after[id].revise_count = 0
                   /\ after[id].last_revised = None
                   /\ ~after[id].leech
                   /\ ~after[id].orphan
            /\ ~full => \A id \in DOMAIN dbFile \ found_ids : after[id] = dbFile[id]

\* a reviewed entry that a scan has made an orphan and that scans can find
\* again, next to an entry that a scan inserted and no session has touched
C3_Witness ==
    \E id, other \in DOMAIN dbFile :
        /\ dbFile[id].revise_count > 0
        /\ dbFile[id].state # CardState_default
        /\ dbFile[id].orphan
        /\ dbFile[other] = CardEntry_new(dbFile[other].card, now)

\* C4: in every store that full scans, incremental scans, session flushes and
\* deletes lead to from the empty store, an orphan entry has an id that the
\* most recent full scan did not find; and a scan, full or not, that finds the
\* id of an orphan entry leaves that entry with orphan = false.
C4_OrphanInvariant ==
    /\ \A id \in DOMAIN dbFile :
           dbFile[id].orphan => lastFull.some /\ id \notin lastFull.ids
    /\ \A found_cards \in FoundLists, full \in BOOLEAN :
           \A id \in DOMAIN dbFile \cap ids_of(found_cards) :
               dbFile[id].orphan =>
                   ~update_db(dbFile, found_cards, full, now, TRUE)[id].orphan

\* after a full scan: an orphan next to an entry that the scan found and that
\* a session has flushed
C4_Witness ==
    /\ lastFull.some
    /\ \E id \in DOMAIN dbFile : dbFile[id].orphan /\ id \notin lastFull.ids
    /\ \E id \in DOMAIN dbFile :
           /\ ~dbFile[id].orphan
           /\ id \in lastFull.ids
           /\ dbFile[id].revise_count > 0

\* C5: an entry whose leech flag is true keeps it through every review (any
\* quality, any algorithm, any threshold) and through every command that
\* changes the store (scan, full or not, session flush, delete of another
\* entry), as long as the entry itself is in the store.
C5_LeechStaysSet ==
    /\ [](\A id \in DOMAIN dbFile :
              dbFile[id].leech =>
                  \A algorithm \in Algos, quality \in Qualities,
                     leech_threshold \in 1..(MaxThreshold + 1) :
                      LET a == App_new(algorithm, <<dbFile[id]>>,
                                       refresh_global_state(stateFile, now),
                                       leech_threshold, MaxDuration)
                          reviewed == review_card(a, dbFile[id], quality, now).card
                      IN  /\ reviewed.leech
                          /\ update_cards(dbFile, <<reviewed>>, TRUE)[id].leech)
    /\ [][\A id \in DOMAIN dbFile :
              (dbFile[id].leech /\ id \in DOMAIN dbFile') => dbFile'[id].leech]_vars

\* an entry that a full scan made an orphan, that became a leech in one
\* session and was reviewed again with success and flushed by a later one
C5_Witness ==
    \E id \in DOMAIN dbFile :
        /\ dbFile[id].leech
        /\ dbFile[id].revise_count > 1
        /\ dbFile[id].state.failed_count = 1
        /\ dbFile[id].state.repetitions = 1
        /\ dbFile[id].orphan

----------------------------------------------------------------------------
(* Properties of one revise process *)

\* C6: during and after a session started in cram mode the store file and the
\* global-state file hold what they held when the process started.
C6_CramLeavesFiles ==
    cram => (dbFile = sess.db0 /\ stateFile = sess.st0)

\* a cram session that reviewed a card, called its callback and returned
C6_Witness ==
    /\ pc = "returned"
    /\ cram
    /\ sess.reviewed # EmptyFn
    /\ sess.update_calls > 0

\* C7: when a non-cram session has returned, by whatever path, and no write of
\* the store failed, the store holds every review entered in the session.
C7_FlushOnEveryExit ==
    (pc = "returned" /\ sess.ran /\ ~cram /\ ~sess.db_write_failed) =>
        \A id \in DOMAIN sess.reviewed :
            id \in DOMAIN dbFile /\ dbFile[id] = sess.reviewed[id]

\* C8: when a session has returned, its callback was called exactly once.
C8_CallbackExactlyOnce ==
    (pc = "returned" /\ sess.ran) => sess.update_calls = 1

\* C9: when a non-cram session has returned and a write of the store or of the
\* global state failed in it, the process returns an error.
C9_WriteFailureSurfaces ==
    (pc = "returned" /\ sess.ran /\ ~cram
        /\ (sess.db_write_failed \/ sess.state_write_failed)) =>
        result = "err"

----------------------------------------------------------------------------
(* Properties of the instance lock *)

\* C10: as long as no process was started with force, at most one process is
\* between its lock acquisition and its release; and a process that found the
\* marker present has neither touched the store, the global state or the scan
\* index nor removed the marker.
C10_LockExclusive ==
    /\ ~forced => Cardinality({p \in Procs : proc[p].pc = "running"}) <= 1
    /\ \A p \in Procs :
           proc[p].pc = "rejected" => (~proc[p].accessed /\ ~proc[p].removed)

\* one process at work under the lock, another one rejected, no force
C10_Witness ==
    /\ ~forced
    /\ marker
    /\ \E p, q \in Procs :
           /\ proc[p].pc = "running"
           /\ proc[p].accessed
           /\ proc[q].pc = "rejected"

\* C11: whenever a process that holds the lock leaves main, be it at the end,
\* by the early return of a scan or with an error, the marker is absent once
\* the process has terminated.
C11_MarkerRemovedOnExit ==
    [][\A p \in Procs :
           (proc[p].pc = "running" /\ proc'[p].pc = "exited") => ~marker']_vars

\* a process that acquired the lock without force has left main with an error
\* and has removed the marker it created
C11_Witness ==
    /\ ~forced
    /\ ~marker
    /\ \E p \in Procs :
           /\ proc[p].pc = "exited"
           /\ proc[p].how = "err"
           /\ proc[p].removed

----------------------------------------------------------------------------
(* Properties of the store file operations *)

\* C12: from the start of a save on, whether it succeeds, fails or is
\* interrupted at any step, the target file holds the complete previous content
\* or the complete new content; after a successful save the temp file is gone.
C12_SaveNeverPartial ==
    aw.pc # "idle" =>
        /\ fs[aw.path] \in {aw.old, FileOf(aw.content)}
        /\ aw.res = "ok" => fs[temp_path_of(aw.path)] = Absent

\* C12 for targets whose extension is not tmp
C12_SaveNeverPartialOtherExt ==
    aw.path.ext # "tmp" => C12_SaveNeverPartial

\* C13: get_db of a missing file, of an empty file and of a file that does not
\* parse returns an empty store and never an error.
C13_GetDbNeverFails ==
    \A path \in Paths :
        /\ get_db_at(fs[path]).ok
        /\ get_db_at(fs[path]).db = EmptyFn

\* C13 without the unparsable files: a missing or blank file gives the empty
\* store
C13_GetDbMissingOrBlank ==
    \A path \in Paths :
        (~fs[path].exists \/ is_blank(fs[path].data)) =>
            get_db_at(fs[path]) = [ok |-> TRUE, db |-> EmptyFn]

\* C14: delete_card with an id that the store does not hold returns an error
\* and leaves the store file as it was; with an id that the store holds it
\* removes that entry and leaves every other entry as it was.
C14_DeleteCard ==
    \A id \in Ids :
        LET after == delete_card(dbFile, id, TRUE)
        IN  IF id \notin DOMAIN dbFile
            THEN /\ delete_card_result(dbFile, id, TRUE) = "err"
                 /\ after = dbFile
            ELSE /\ delete_card_result(dbFile, id, TRUE) = "ok"
                 /\ DOMAIN after = DOMAIN dbFile \ {id}
                 /\ \A i \in DOMAIN after : after[i] = dbFile[i]

\* a store that holds a reviewed entry and lacks another id: both cases of
\* delete_card apply
C14_Witness ==
    /\ \E id \in Ids : id \notin DOMAIN dbFile
    /\ \E id \in DOMAIN dbFile : dbFile[id].revise_count > 0

\* the lists of entries handed to update_cards: up to MaxFound entries, fresh
\* or revised once, of any card
EntryLists ==
    LET entries == {[CardEntry_new(c, 0) EXCEPT !.revise_count = n] :
                        c \in Card, n \in 0..1}
    IN  UNION {[1..n -> entries] : n \in 0..MaxFound}

\* C15: after update_cards the store holds, for every id of the list, the last
\* entry of the list with that id, and every other entry as it was.
C15_UpdateCardsLastWins ==
    \A cards \in EntryLists :
        LET after == update_cards(dbFile, cards, TRUE)
            listed == {cards[i].card.id : i \in DOMAIN cards}
        IN  /\ DOMAIN after = DOMAIN dbFile \cup listed
            /\ \A id \in DOMAIN after \ listed : after[id] = dbFile[id]
            /\ \A i \in DOMAIN cards :
                   (\A j \in DOMAIN cards : cards[j].card.id = cards[i].card.id => j <= i)
                       => after[cards[i].card.id] = cards[i]

\* a revise run has written the entry of the card it reviewed by update_cards
\* and the other entry of the store is as the scan left it
C15_Witness ==
    \E i, j \in DOMAIN dbFile :
        /\ dbFile[i].revise_count > 0
        /\ dbFile[j] = CardEntry_new(dbFile[j].card, 0)

----------------------------------------------------------------------------
(* Properties of the algorithms *)

\* C16: for each algorithm and every sequence of qualities, starting from an
\* ease factor of 1.3 or more, the ease factor is 1.3 or more after every review.
C16_EaseFactorFloor == rev.state.ease_factor >= 130

\* a card at the least ease factor has passed a review with the lowest passing
\* quality, which lowers the ease factor, and still has that ease factor
C16_Witness ==
    /\ rev.n > 0
    /\ rev.algo \in {"SM2", "SM5"}
    /\ rev.quality = 3
    /\ rev.before.ease_factor = 130
    /\ rev.state.ease_factor = 130

\* C17: for SM2, SM5 and Simple8 and from every card state, a review with
\* quality 0, 1 or 2 leaves repetitions = 0 and interval = 0 and the ease factor
\* as it was.
C17_FailedReviewResets ==
    (rev.n > 0 /\ rev.quality \in {0, 1, 2}) =>
        /\ rev.state.repetitions = 0
        /\ rev.state.interval = 0
        /\ rev.state.ease_factor = rev.before.ease_factor

\* SM5 has failed a card that had repetitions, an interval and an ease factor
\* above the least one
C17_Witness ==
    /\ rev.n > 0
    /\ rev.algo = "SM5"
    /\ rev.quality = 0
    /\ rev.before.repetitions > 1
    /\ rev.before.interval > 0
    /\ rev.before.ease_factor > 130
    /\ rev.state.repetitions = 0

\* C18: a review of quality q in 3..5 by SM2 sets the interval to 1 when
\* repetitions was 0, to 6 when it was 1, and otherwise to the rounded product
\* of the interval and the ease factor before the review; it adds 1 to
\* repetitions and sets the ease factor to
\* max(1.3, ef + 0.1 - (5 - q) * (0.08 + (5 - q) * 0.02)).  Three reviews of
\* quality 5 from the default state give the intervals 1, 6, 16 and the ease
\* factors 2.6, 2.7, 2.8.
C18_Sm2Success ==
    /\ (rev.algo = "SM2" /\ rev.n > 0 /\ rev.quality \in 3..5) =>
           LET old == rev.before
               q == rev.quality
               raw == old.ease_factor + 10 - (5 - q) * (8 + (5 - q) * 2)
           IN  /\ rev.state.interval =
                      (CASE old.repetitions = 0 -> 1
                         [] old.repetitions = 1 -> 6
                         [] OTHER -> (2 * old.interval * old.ease_factor + 100) \div 200)
               /\ rev.state.repetitions = old.repetitions + 1
               /\ rev.state.ease_factor = (IF raw >= 130 THEN raw ELSE 130)
    /\ (/\ rev.algo = "SM2"
        /\ rev.start = CardState_default
        /\ [i \in DOMAIN rev.hist |-> rev.hist[i].quality] = <<5, 5, 5>>) =>
           /\ [i \in DOMAIN rev.hist |-> rev.hist[i].state.interval] = <<1, 6, 16>>
           /\ [i \in DOMAIN rev.hist |-> rev.hist[i].state.ease_factor]
                  = <<260, 270, 280>>

\* SM2 has reviewed the default card three times with quality 5
C18_Witness ==
    /\ rev.algo = "SM2"
    /\ rev.start = CardState_default
    /\ Len(rev.hist) = 3
    /\ \A i \in DOMAIN rev.hist : rev.hist[i].quality = 5
    /\ rev.state.interval = 16

\* C19: every review by SM5, passed or failed, sets the matrix entry at
\* (repetitions before the review, new ease factor max(1.3, ...) rounded to two
\* decimals) to f * (0.5 + 0.5 * (0.72 + 0.07 q)), where f is the entry at
\* (repetitions, ease factor before the review) and, when there is none, 4.0 for
\* repetitions = 0 and the ease factor before the review otherwise; no other
\* entry changes.
C19_Sm5MatrixUpdate ==
    (rev.algo = "SM5" /\ rev.n > 0) =>
        LET old == rev.before
            q == rev.quality
            m0 == rev.gbefore.optimal_factor_matrix
            m1 == rev.global.optimal_factor_matrix
            raw == old.ease_factor + 10 - (5 - q) * (8 + (5 - q) * 2)
            key == <<old.repetitions, IF raw >= 130 THEN raw ELSE 130>>
            seen == <<old.repetitions, old.ease_factor>>
            f == IF seen \in DOMAIN m0 THEN m0[seen]
                 ELSE IF old.repetitions = 0 THEN 40000
                 ELSE old.ease_factor * 100
        IN  /\ DOMAIN m1 = DOMAIN m0 \cup {key}
            /\ m1[key] = (2 * f * (172 + 7 * q) + 200) \div 400
            /\ \A k \in DOMAIN m0 \ {key} : m1[k] = m0[k]

\* SM5 has looked up a pair that an earlier review entered, and has added a
\* second entry to the row of that repetition count
C19_Witness ==
    /\ rev.algo = "SM5"
    /\ rev.n > 0
    /\ <<rev.before.repetitions, rev.before.ease_factor>>
           \in DOMAIN rev.gbefore.optimal_factor_matrix
    /\ \E k \in DOMAIN rev.global.optimal_factor_matrix :
           /\ k \notin DOMAIN rev.gbefore.optimal_factor_matrix
           /\ k[1] = rev.before.repetitions

----------------------------------------------------------------------------
(* Properties of the global state across sessions *)

MatrixKeys(global) == DOMAIN global.optimal_factor_matrix

\* the clock readings of a session started now or more than a week later
SessionTimes(t) == {t, t + WeekSecs + 1}

\* C20: no key of the optimal-factor matrix of the state file disappears:
\* not by any command, and not by the load, the refresh, the reviews and the
\* save of a session of any algorithm that starts at once or more than a week
\* later, whether its writes succeed or fail.
C20_MatrixKeysStay ==
    /\ [](\A t \in SessionTimes(now), algorithm \in Algos, keys \in KeyRuns,
             okDb \in BOOLEAN, okSt \in BOOLEAN :
              \A cards \in PossibleBatches(get_db(dbFile), FALSE, t) :
                  Len(keys) <= Len(cards) + 1 =>
                      LET state == refresh_global_state(get_global_state(stateFile), t)
                          w0 == MkWorld(App_new(algorithm, cards, state, 1,
                                                MaxDuration),
                                        FALSE, dbFile, stateFile, NoSess)
                          w == run(w0, keys, t, okDb, okSt)
                      IN  /\ MatrixKeys(stateFile) \subseteq MatrixKeys(state)
                          /\ MatrixKeys(state) \subseteq MatrixKeys(w.app.global_state)
                          /\ MatrixKeys(stateFile) \subseteq MatrixKeys(w.st))
    /\ [][MatrixKeys(stateFile) \subseteq MatrixKeys(stateFile')]_vars

\* two sessions of SM5 have each saved a key of their own to the state file
C20_Witness ==
    /\ Cardinality(MatrixKeys(stateFile)) > 1
    /\ stateFile.total_cards_revised > 1
    /\ stateFile.last_revise_session # None

\* C21: under Simple8 a review of quality 3..5 of a card with repetitions = 0 or
\* interval = 0 sets the interval to 2.4849 * e^(-0.057 * failed_count) rounded
\* to the nearest integer, half away from zero, whatever failed_count is, and
\* adds 1 to repetitions.
C21_Simple8FirstInterval ==
    (/\ rev.algo = "Simple8"
     /\ rev.n > 0
     /\ rev.quality \in 3..5
     /\ (rev.before.repetitions = 0 \/ rev.before.interval = 0)) =>
        /\ rev.state.interval =
               (2 * first_interval(rev.before.failed_count) + 10000) \div 20000
        /\ rev.state.repetitions = rev.before.repetitions + 1

\* C21 with the fraction dropped instead of rounded
C21_Simple8FirstIntervalFloor ==
    (/\ rev.algo = "Simple8"
     /\ rev.n > 0
     /\ rev.quality \in 3..5
     /\ (rev.before.repetitions = 0 \/ rev.before.interval = 0)) =>
        /\ rev.state.interval = first_interval(rev.before.failed_count) \div 10000
        /\ rev.state.repetitions = rev.before.repetitions + 1

RECURSIVE SumQualities(_)
SumQualities(hist) ==
    IF hist = <<>> THEN 0 ELSE Head(hist).quality + SumQualities(Tail(hist))

\* C22: update_meanq adds exactly 1 to total_cards_revised and sets mean_q to
\* the quality when there was no mean and to (n * mean + q) / (n + 1) otherwise,
\* n being the count before the call; after k calls from no mean and count 0
\* mean_q is the arithmetic mean of the k qualities and the count is k.
\* (mean_q is held in sixtieths.)
C22_UpdateMeanq ==
    /\ [](rev.n > 0 =>
              /\ rev.gbefore.total_cards_revised = rev.n
              /\ rev.gbefore.mean_q * rev.n = 60 * SumQualities(rev.hist))
    /\ [][rev' # rev =>
              LET old == rev.global
                  new == rev'.gbefore
                  q == rev'.quality
              IN  /\ new.total_cards_revised = old.total_cards_revised + 1
                  /\ IF old.mean_q = None
                     THEN new.mean_q = 60 * q
                     ELSE new.mean_q * (old.total_cards_revised + 1)
                              = old.total_cards_revised * old.mean_q + 60 * q]_vars

\* three calls with different qualities whose mean is no whole number
C22_Witness ==
    /\ rev.n = 3
    /\ SumQualities(rev.hist) = 10
    /\ rev.hist[1].quality # rev.hist[2].quality
    /\ rev.gbefore.mean_q = 200

\* the clock readings of a refresh: at once, a week less a second, a week and
\* a week and a second after the clock reading of the model
RefreshTimes(t) == {t, t + 7 * DaySecs - 1, t + 7 * DaySecs, t + 7 * DaySecs + 1}

\* C23: refresh_global_state resets mean_q to none and total_cards_revised to 0
\* exactly when a last session time exists and lies strictly more than 7 days
\* back (exactly 7 days: no reset); it always sets last_revise_session to the
\* clock reading and leaves the optimal-factor matrix as it was.
C23_RefreshGlobalState ==
    \A t \in RefreshTimes(now) :
        LET old == get_global_state(stateFile)
            new == refresh_global_state(old, t)
            late == /\ old.last_revise_session # None
                    /\ t - old.last_revise_session > 7 * DaySecs
        IN  /\ late => (new.mean_q = None /\ new.total_cards_revised = 0)
            /\ ~late => /\ new.mean_q = old.mean_q
                        /\ new.total_cards_revised = old.total_cards_revised
            /\ new.last_revise_session = t
            /\ new.optimal_factor_matrix = old.optimal_factor_matrix

\* a state file with a last session, a mean, a count and a matrix entry: all
\* four cases of the refresh differ
C23_Witness ==
    /\ stateFile.last_revise_session = now
    /\ stateFile.mean_q # None
    /\ stateFile.total_cards_revised > 0
    /\ stateFile.optimal_factor_matrix # EmptyFn

----------------------------------------------------------------------------
(* Properties of the selection of cards for a session *)

\* the clock readings around the two boundaries of an entry
DueTimes(c, cram_hours) ==
    LET last == IF c.last_revised # None THEN c.last_revised ELSE now
        day == last + c.state.interval * DaySecs
        hour == last + cram_hours * HourSecs
    IN  {day - 1, day, day + 1, hour - 1, hour, hour + 1}

\* C24: an entry passes the due filter exactly when it was never revised, or,
\* in cram mode, at least cram_hours hours have passed since it was revised,
\* or, in normal mode, the clock has reached last_revised + interval days;
\* both boundaries are inclusive and in cram mode the interval plays no role.
C24_DueFilter ==
    \A id \in DOMAIN dbFile, cram_mode \in BOOLEAN, cram_hours \in CramHours :
        LET c == dbFile[id]
        IN  \A today \in DueTimes(c, cram_hours) :
                /\ is_due(c, cram_mode, cram_hours, today) <=>
                       \/ c.last_revised = None
                       \/ cram_mode /\ today - c.last_revised >= cram_hours * HourSecs
                       \/ ~cram_mode
                             /\ today >= c.last_revised + c.state.interval * DaySecs
                /\ \A interval \in {0, c.state.interval + 1} :
                       is_due([c EXCEPT !.state.interval = interval], TRUE,
                              cram_hours, today)
                           = is_due(c, TRUE, cram_hours, today)

\* the store holds an entry that was revised and has an interval of some days,
\* and an entry that was never revised
C24_Witness ==
    /\ \E id \in DOMAIN dbFile :
           dbFile[id].last_revised # None /\ dbFile[id].state.interval > 0
    /\ \E id \in DOMAIN dbFile : dbFile[id].last_revised = None

\* C25: the batch of a session holds no card twice; every card of it is an
\* entry of the store that is due, matches the tag filter (no tags: no filter,
\* otherwise a common tag), is no orphan unless include_orphans is set and is
\* no leech when the policy is Skip; and the batch has
\* min(maximum_cards_per_session, number of such entries) cards.
C25_BatchSelection ==
    \A in_cram \in BOOLEAN, cram_hours \in CramHours, include_orphans \in BOOLEAN,
       leech_method \in LeechMethods, maximum_cards \in 0..NumIds,
       tags \in TagSets, today \in {now, now + DaySecs} :
        LET eligible ==
                {id \in DOMAIN dbFile :
                    /\ \/ dbFile[id].last_revised = None
                       \/ in_cram /\ today - dbFile[id].last_revised
                                         >= cram_hours * HourSecs
                       \/ ~in_cram /\ today >= dbFile[id].last_revised
                                         + dbFile[id].state.interval * DaySecs
                    /\ tags = {} \/ tags_of(dbFile[id].card) \cap tags # {}
                    /\ include_orphans \/ ~dbFile[id].orphan
                    /\ leech_method # "Skip" \/ ~dbFile[id].leech}
            size == IF maximum_cards <= Cardinality(eligible)
                    THEN maximum_cards ELSE Cardinality(eligible)
        IN  \A cards \in revise_batches(get_db(dbFile), in_cram, cram_hours,
                                        include_orphans, leech_method,
                                        maximum_cards, tags, today) :
                /\ \A i, j \in DOMAIN cards :
                       cards[i].card.id = cards[j].card.id => i = j
                /\ \A i \in DOMAIN cards :
                       /\ cards[i].card.id \in eligible
                       /\ cards[i] = dbFile[cards[i].card.id]
                /\ Len(cards) = size

\* a store of two entries of which one is a leech and one an orphan, and one is
\* not due now
C25_Witness ==
    /\ Cardinality(DOMAIN dbFile) = 2
    /\ \E id \in DOMAIN dbFile : dbFile[id].leech
    /\ \E id \in DOMAIN dbFile : dbFile[id].orphan
    /\ \E id \in DOMAIN dbFile :
           /\ dbFile[id].last_revised # None
           /\ ~is_due(dbFile[id], FALSE, 0, now)

----------------------------------------------------------------------------
(* Properties of the directory scan *)

C27_FullScan ==
    (scan.outcome = "scanned" /\ scan.full) =>
        /\ scan.parsed = scan.files
        /\ scan.save = "ok" =>
               \A f \in scan.files : f \in DOMAIN indexFile /\ indexFile[f] = tree[f]

\* the first part of C27: a full scan parses every discovered file
C27_FullScanParsesAll ==
    (scan.outcome = "scanned" /\ scan.full) => scan.parsed = scan.files

----------------------------------------------------------------------------
(* Properties of the leech flag and of the duration of a session *)

\* the entry of id after a review of the given quality in a session of the
\* given algorithm and threshold
reviewed_entry(id, algorithm, quality, leech_threshold) ==
    review_card(App_new(algorithm, <<dbFile[id]>>,
                        refresh_global_state(stateFile, now),
                        leech_threshold, MaxDuration),
                dbFile[id], quality, now).card

\* C28: a review flags the card as a leech exactly when its failed_count
\* exceeds the threshold: a card that was no leech and whose failed_count after
\* the review is equal to or below the threshold is not flagged, a card whose
\* failed_count is above it is flagged.
C28_LeechAboveThreshold ==
    \A id \in DOMAIN dbFile, algorithm \in Algos, quality \in Qualities,
       leech_threshold \in 1..MaxThreshold :
        LET c == reviewed_entry(id, algorithm, quality, leech_threshold)
        IN  /\ (~dbFile[id].leech /\ c.state.failed_count <= leech_threshold)
                   => ~c.leech
            /\ c.state.failed_count > leech_threshold => c.leech

\* C28 amended: a card that was no leech and whose failed_count after the
\* review is below the threshold is not flagged, a card whose failed_count is
\* equal to or above the threshold is flagged.
C28_LeechFromThreshold ==
    \A id \in DOMAIN dbFile, algorithm \in Algos, quality \in Qualities,
       leech_threshold \in 1..MaxThreshold :
        LET c == reviewed_entry(id, algorithm, quality, leech_threshold)
        IN  /\ (~dbFile[id].leech /\ c.state.failed_count < leech_threshold)
                   => ~c.leech
            /\ c.state.failed_count >= leech_threshold => c.leech

\* a session has flagged an entry whose failed_count equals its threshold, and
\* another entry with a failure, reviewed under a higher threshold, is no leech
C28_Witness ==
    /\ \E id \in DOMAIN dbFile :
           dbFile[id].leech /\ dbFile[id].state.failed_count = 1
    /\ \E id \in DOMAIN dbFile :
           ~dbFile[id].leech /\ dbFile[id].state.failed_count = 1

\* C29: the duration limit is counted in minutes: whenever the duration check
\* of a running session ends it, at least max_duration * 60 seconds have
\* elapsed since the session started.
C29_DurationInMinutes ==
    (pc = "session" /\ ~app.exit /\ check_duration(World, TRUE, TRUE).app.exit)
        => app.elapsed >= app.max_duration * 60

\* C30: once the elapsed time of a running session has reached its maximum
\* duration, the session eventually ends, whether or not a further event of
\* the terminal comes.
C30_DurationEndsSession ==
    (pc = "session" /\ ~app.exit /\ app.elapsed >= app.max_duration)
        ~> (pc = "returned")

----------------------------------------------------------------------------
(* Properties of the algorithms over runs of reviews *)

\* one review as the session makes it: update_meanq, then update_state
review_once(algo, quality, state, global) ==
    algorithm_update_state(algo, quality, state, update_meanq(global, quality))

\* k reviews of the same quality in a row
RECURSIVE review_times(_, _, _, _, _)
review_times(algo, k, quality, state, global) ==
    IF k = 0
    THEN [state |-> state, global |-> global]
    ELSE LET r == review_once(algo, quality, state, global)
         IN  review_times(algo, k - 1, quality, r.state, r.global)

\* C31: for each algorithm and every card state reached from the default state
\* by reviews (here: the reviews made so far, then up to MaxFails failed ones),
\* a successful review leaves interval >= 1 and repetitions >= 1.
C31_SuccessLeavesPositive ==
    rev.start = CardState_default =>
        \A k \in 0..MaxFails, qf \in {0, 1, 2}, qs \in {3, 4, 5} :
            LET s == review_times(rev.algo, k, qf, rev.state, rev.global)
                r == review_once(rev.algo, qs, s.state, s.global)
            IN  r.state.interval >= 1 /\ r.state.repetitions >= 1

----------------------------------------------------------------------------
(* Properties of loads and saves by several threads *)

\* C32: when several threads each load the store and then save it on the same
\* path, every load succeeds and returns a complete store, never a partly
\* written file, and once all threads are through at least one save succeeded.
C32_ConcurrentLoadsAndSaves ==
    /\ \A t \in Threads :
           thr[t].loaded # "none" =>
               thr[t].loaded = "ok" /\ thr[t].read = EmptyDbJson
    /\ (\A t \in Threads : thr[t].pc = "done") =>
           \E t \in Threads : thr[t].saved = "ok"

\* the part of C32 that holds: once all threads are through, some save
\* succeeded
C32_SomeSaveSucceeds ==
    (\A t \in Threads : thr[t].pc = "done") =>
        \E t \in Threads : thr[t].saved = "ok"

----------------------------------------------------------------------------
(* Properties of the audit view *)

\* the cards that the view lists
listed(a) == {a.cards[i] : i \in DOMAIN a.cards}

\* C33: confirming a deletion with 'y' while the current card is a leech never
\* calls delete_fn, leaves the store as it is and leaves the set of listed
\* cards unchanged.
C33_LeechNotDeleted ==
    (/\ pc = "audit"
     /\ aud.sure
     /\ aud.current_card < Len(aud.cards)
     /\ aud.cards[aud.current_card + 1].leech)
    => \A ok \in BOOLEAN :
           LET w == Audit_handle_key_event([a |-> aud, db |-> dbFile], "y", ok)
           IN  /\ w.a.calls = aud.calls
               /\ w.db = dbFile
               /\ listed(w.a) = listed(aud)

\* a 'y' was refused: the view is still sure after it, and a leech is listed
C33_Witness ==
    /\ pc = "audit"
    /\ aud.key = "y"
    /\ aud.sure
    /\ aud.calls = <<>>
    /\ \E c \in listed(aud) : c.leech

----------------------------------------------------------------------------
(* Properties of a review in the session *)

\* a session on a batch of the store, at one of its cards, with the help
\* screen shown or not
session_on(batch, algorithm, current, help) ==
    MkWorld([App_new(algorithm, batch, refresh_global_state(stateFile, now),
                     MaxThreshold, MaxDuration)
                EXCEPT !.current_card = current, !.help = help],
            FALSE, dbFile, stateFile, NoSess)

\* what a quality key is to do to the world w, giving v
reviewed_once(w, v, quality, t) ==
    LET i == w.app.current_card + 1
        c == w.app.cards[i]
        r == review_once(w.app.algorithm, quality, c.state, w.app.global_state)
    IN  /\ Len(v.app.cards) = Len(w.app.cards)
        /\ v.app.cards[i].revise_count = c.revise_count + 1
        /\ v.app.cards[i].last_revised = t
        /\ v.app.cards[i].state = r.state
        /\ v.app.current_card = w.app.current_card + 1
        /\ \A j \in DOMAIN w.app.cards : j # i => v.app.cards[j] = w.app.cards[j]

C35_FailedCountTracks ==
    rev.n > 0 =>
        rev.state.failed_count =
            rev.before.failed_count + (IF failed(rev.quality) THEN 1 ELSE 0)

\* the same of the two algorithms that count failures
C35_FailedCountTracksSm2Simple8 ==
    (rev.n > 0 /\ rev.algo # "SM5") =>
        rev.state.failed_count =
            rev.before.failed_count + (IF failed(rev.quality) THEN 1 ELSE 0)

----------------------------------------------------------------------------
(* Properties of the instance lock under forced starts *)

\* C36: as long as a process that acquired the lock, with or without force, is
\* still running, the marker exists and a start without force fails.
C36_RunningHoldsMarker ==
    (\E p \in Procs : proc[p].pc = "running") =>
        (marker /\ ~LockGuard_new(marker))

\* the same as long as no process was started with force
C36_RunningHoldsMarkerUnforced ==
    (~forced /\ \E p \in Procs : proc[p].pc = "running") =>
        (marker /\ ~LockGuard_new(marker))

----------------------------------------------------------------------------
(* Properties of the scan index and the store *)

\* C37: whenever the saved scan index records the modification time of a file,
\* the cards parsed from the file at that time have been written to the store:
\* a scan that puts the present time of a file on record in the index file has
\* written the cards of that file, also when parsing or update_db fails.
C37_IndexedMeansStored ==
    scan.outcome # "none" =>
        \A f \in scan.files :
            (/\ f \in DOMAIN indexFile
             /\ indexFile[f] = tree[f]
             /\ (f \notin DOMAIN scan.index0 \/ scan.index0[f] # tree[f]))
            => f \in scan.stored

\* the same of the directory scans of files with a modification time above 0
\* in which update_db does not fail
C37_IndexedMeansStoredDirOk ==
    (/\ scan.outcome \in {"scanned", "skipped", "err"}
     /\ scan.outcome = "scanned" => (scan.stored = scan.parsed))
    => \A f \in scan.files :
           (/\ f \in DOMAIN indexFile
            /\ indexFile[f] = tree[f]
            /\ tree[f] > 0
            /\ (f \notin DOMAIN scan.index0 \/ scan.index0[f] # tree[f]))
           => f \in scan.stored

----------------------------------------------------------------------------
(* Properties of deletions in the audit view *)

\* C38: the audit view deletes a card from the store only on a 'y' that
\* confirms the request made with 'd' while that card was current: the card
\* deleted is always the card that was shown when deletion was requested.
C38_DeletesTheCardAsked ==
    \A i \in DOMAIN aud.calls :
        aud.calls[i].res = "ok" => aud.calls[i].id = aud.calls[i].asked

\* what holds of every call of delete_fn: a deletion was requested with 'd'
\* before it
C38_DeletesAfterRequest ==
    \A i \in DOMAIN aud.calls : aud.calls[i].asked # None

\* C39: whenever the card list of the audit view is not empty, current_card is
\* less than the number of cards, and no confirmation removes at an index out
\* of range.
C39_CurrentCardInRange ==
    pc = "audit" =>
        /\ ~aud.panicked
        /\ aud.cards # <<>> => aud.current_card < Len(aud.cards)

\* the last card of the list was deleted and current_card went back to the
\* card before it; a deletion failed; a leech was refused
C39_Witness ==
    /\ pc = "audit"
    /\ aud.cards # <<>>
    /\ aud.current_card = Len(aud.cards) - 1
    /\ \E i \in DOMAIN aud.calls : aud.calls[i].res = "ok"
    /\ \E i \in DOMAIN aud.calls : aud.calls[i].res = "err"

\* a leech was refused while it was the last card of a list of several
C39_WitnessLeech ==
    /\ pc = "audit"
    /\ aud.key = "y"
    /\ aud.sure
    /\ Len(aud.cards) > 1
    /\ aud.current_card = Len(aud.cards) - 1

----------------------------------------------------------------------------
(* Properties of the due filter at the ends of the range of the interval *)

\* the clock readings of a filter run before an entry of interval d falls due
EarlyTimes(c, d) ==
    {t \in {c.last_revised, c.last_revised + 1, c.last_revised + d * DaySecs - 1} :
        t < c.last_revised + d * DaySecs}

\* C40: in normal mode a card revised at time t with interval d is not due at
\* any time before t + d days, for every d that the interval field can hold,
\* and the due filter does not fail for any such d.
C40_ExtremeIntervals ==
    \A id \in DOMAIN dbFile :
        dbFile[id].last_revised # None =>
            \A d \in 0..IntervalMax :
                LET c == [dbFile[id] EXCEPT !.state.interval = d]
                IN  /\ ~due_filter_panics(c, FALSE)
                    /\ \A today \in EarlyTimes(c, d) : ~is_due(c, FALSE, 0, today)

\* the same of the intervals whose date a DateTime holds
C40_IntervalsInRange ==
    \A id \in DOMAIN dbFile :
        dbFile[id].last_revised # None =>
            \A d \in {e \in 0..IntervalMax : DateTime_add_in_range(e)} :
                LET c == [dbFile[id] EXCEPT !.state.interval = d]
                IN  /\ ~due_filter_panics(c, FALSE)
                    /\ \A today \in EarlyTimes(c, d) : ~is_due(c, FALSE, 0, today)

\* a card of the largest interval is not due at the time of its revision,
\* unless the filter fails
C40_LargestIntervalNotDue ==
    \A id \in DOMAIN dbFile :
        dbFile[id].last_revised # None =>
            LET c == [dbFile[id] EXCEPT !.state.interval = IntervalMax]
            IN  due_filter_panics(c, FALSE) \/ ~is_due(c, FALSE, 0, c.last_revised)

====
